---- MODULE Spec2Model ----
(***************************************************************************)
(* Points ledger and signature relay of the espfun backend.                *)
(*                                                                         *)
(* The persistent tables (users, players, transactions, point_history,     *)
(* buy_tokens_transactions, sell_tokens_transactions) are the state.  A    *)
(* request handler is a sequence of awaited database or chain calls; one   *)
(* action of the model is one such call (a prisma.$transaction block is    *)
(* one call), so handlers of concurrent requests interleave exactly at     *)
(* their await points.                                                     *)
(***************************************************************************)
EXTENDS Integers, Sequences, FiniteSets, TLC

VARIABLES
  env,            \* process environment read once by the service constructors
  users,          \* table users: id -> row
  players,        \* table players: nftTokenId -> row
  transactions,   \* table transactions, in creation order
  pointHistory,   \* table point_history, in creation order
  buyTxs,         \* table buy_tokens_transactions, in creation order
  sellTxs,        \* table sell_tokens_transactions, in creation order
  usedNonces,     \* FDFPair.usedNonces / Player.getCurrentNonce, per wallet body
  idSeq,          \* number of row ids generated so far
  now,            \* the clock read by new Date()
  req,            \* the request handlers in flight: slot -> handler frame
  nOps            \* number of requests started so far

vars == <<env, users, players, transactions, pointHistory, buyTxs, sellTxs,
          usedNonces, idSeq, now, req, nOps>>

ledgerTables == <<users, players, transactions, pointHistory>>
relayTables  == <<buyTxs, sellTxs, usedNonces, idSeq, now>>

----------------------------------------------------------------------------
(* Bounds of the model *)

MaxOps == 2          \* ledger requests started in one behaviour
MaxRelayOps == 3     \* relay requests started in one behaviour
MaxBalance == 3      \* largest starting balance of the adjustment runs
MaxDelta == 5        \* largest adjustment, either sign, of the adjustment runs
MaxStartNonce == 6   \* most nonces the contract has consumed before the run
MaxPointsOps == 3    \* updatePoints calls made in one behaviour of the service runs
MaxNonceRequests == 5 \* login nonce requests made in one behaviour

Slots == {1, 2}                       \* concurrently running handlers
Bodies == {1, 2}                      \* a wallet: the 20 bytes of the address
Forms == {"lower", "mixed"}           \* how its hex digits are written
Addresses == [body : Bodies, form : Forms]
UserIds == {1, 2}
TokenIds == {1}                       \* NFT token ids of the player contract
PointTypes == {"TOURNAMENT", "SKILL"}
PointTypeParams == {"tournament", "skill"}
UpdateAmounts == {50}
UpdateTypes == {"EARNED", "SPENT"}
Adjustments == {-100, 50}
AwardAmounts == {25}
ShareLists == {<<1>>}
PackTypes == {"PRO", "EPIC", "LEGENDARY"}
PurchasedTypes == {"EPIC"}
Contracts == {"FDFPair", "Player"}
BuyerAddresses == {[body |-> 1, form |-> "lower"], [body |-> 2, form |-> "mixed"]}
TxHashes == {"0xh1", "0xh2"}
StartBalances == 0..MaxBalance
AdjustDeltas == (0 - MaxDelta)..MaxDelta
PointsAmounts == {1, 50, 100}

----------------------------------------------------------------------------
(* Program constants *)

StartTournamentPoints == 100
StartSkillPoints == 50
UNBENCH_COST == 10
POINTS_PER_SHARE == 10
BASE_COST_PER_PLAYER == 50
COST_PER_SHARE == 25

NoAddress == [body |-> 0, form |-> "lower"]

\* process.env.ADMIN_WALLET_ADDRESS
AdminWallet == [body |-> 1, form |-> "lower"]

----------------------------------------------------------------------------
(* Pure helpers *)

Max(a, b) == IF a >= b THEN a ELSE b
Abs(a) == IF a < 0 THEN 0 - a ELSE a

\* String.prototype.toLowerCase on a wallet address
ToLowerCase(a) == [a EXCEPT !.form = "lower"]

\* String.prototype.toUpperCase on the pointType request parameter
ToUpperCase(p) == IF p = "tournament" THEN "TOURNAMENT" ELSE "SKILL"

\* fieldName = pointType === 'tournament' ? 'tournamentPoints' : 'skillPoints'
FieldOf(p) == IF p = "tournament" THEN "TOURNAMENT" ELSE "SKILL"

\* user.tournamentPoints / user.skillPoints of a row
PointsOf(row, pt) ==
  IF pt = "TOURNAMENT" THEN row.tournamentPoints ELSE row.skillPoints

\* a write that sets both balances of the row
WithBothPoints(row, pt, v) ==
  [row EXCEPT !.tournamentPoints = v, !.skillPoints = v]

\* data: { [fieldName]: v }
WithPoints(row, pt, v) ==
  IF pt = "TOURNAMENT" THEN [row EXCEPT !.tournamentPoints = v]
                       ELSE [row EXCEPT !.skillPoints = v]

\* prisma.user.findUnique({ where: { walletAddress } }): the id, or 0
FindByWallet(a) ==
  IF \E u \in DOMAIN users : users[u].walletAddress = a
  THEN CHOOSE u \in DOMAIN users : users[u].walletAddress = a
  ELSE 0

\* prisma.user.create: a row with the starting balances
NewUser(a) ==
  [walletAddress |-> a,
   tournamentPoints |-> StartTournamentPoints,
   skillPoints |-> StartSkillPoints]

TransactionRow(u, type, amount, pt) ==
  [userId |-> u, type |-> type, amount |-> amount, pointType |-> pt]

HistoryRow(u, pt, change, prev, new) ==
  [userId |-> u, pointType |-> pt, change |-> change,
   previousBalance |-> prev, newBalance |-> new]

\* a write that replaces the newest row of the table
OverwriteLastRow(table, row) ==
  IF table = <<>> THEN <<row>> ELSE [table EXCEPT ![Len(table)] = row]

\* tx.transaction.create / tx.pointHistory.create: a new row after the others
CreateRow(table, row) == Append(table, row)

\* request.shares.reduce((sum, shares) => sum + shares * POINTS_PER_SHARE, 0)
RECURSIVE PointsEarned(_)
PointsEarned(shares) ==
  IF shares = <<>> THEN 0
  ELSE Head(shares) * POINTS_PER_SHARE + PointsEarned(Tail(shares))

\* PlayerService.getPromotionCost
RECURSIVE GetPromotionCost(_)
GetPromotionCost(shares) ==
  IF shares = <<>> THEN 0
  ELSE (BASE_COST_PER_PLAYER + Head(shares) * COST_PER_SHARE)
         + GetPromotionCost(Tail(shares))

\* PackService.getPackCost and the route's getPackCost
GetPackCost(packType) ==
  CASE packType = "PRO" -> 0
    [] packType = "EPIC" -> 0
    [] packType = "LEGENDARY" -> 0

\* checkPackIssuer: the wallet exists only with both variables set
PackIssuerConfigured == env.MONAD_RPC_URL /\ env.PACK_ISSUER_PRIVATE_KEY

----------------------------------------------------------------------------
(* Handler frames *)

Idle ==
  [op |-> "idle", pc |-> "idle", caller |-> 0, uid |-> 0, addr |-> NoAddress,
   cur |-> "TOURNAMENT", typ |-> "none", amt |-> 0, pid |-> 0,
   shares |-> <<>>, chainNonce |-> 0, nonce |-> 0, sig |-> "none",
   txHash |-> "none", ret |-> 0, retNonce |-> 0, cb |-> 0, nb |-> 0, ch |-> 0,
   res |-> "none"]

Free(r) == req[r].pc \in {"idle", "done"}

\* a new request takes the lowest slot whose previous request has answered
CanStart(S, r) ==
  /\ r \in S
  /\ Free(r)
  /\ \A q \in S : q < r => ~Free(q)

LedgerCanStart(S, r) == CanStart(S, r) /\ nOps < MaxOps
RelayCanStart(S, r) == CanStart(S, r) /\ nOps < MaxRelayOps

Start(r, frame) ==
  /\ req' = [req EXCEPT ![r] = frame]
  /\ nOps' = nOps + 1

\* the handler answers; what it read dies with it
Done(frame, result) ==
  [frame EXCEPT !.pc = "done", !.res = result, !.cb = 0, !.nb = 0]

Finish(r, result) ==
  req' = [req EXCEPT ![r] = Done(@, result)]

Goto(r, pc) ==
  req' = [req EXCEPT ![r].pc = pc]

At(r, op, pc) == req[r].op = op /\ req[r].pc = pc

----------------------------------------------------------------------------
(* POST /api/auth/login *)

Login(a) ==
  /\ FindByWallet(ToLowerCase(a)) = 0
  /\ LET id == Cardinality(DOMAIN users) + 1 IN
       users' = [u \in DOMAIN users \cup {id} |->
                   IF u = id THEN NewUser(ToLowerCase(a)) ELSE users[u]]
  /\ UNCHANGED <<env, players, transactions, pointHistory, req, nOps>>
  /\ UNCHANGED relayTables

----------------------------------------------------------------------------
(* PointsService.updatePoints *)

\* a lookup miss answered as a success
SilentAnswer(f) == Done(f, "ok")

\* if (!user) throw new Error('User not found')
NotFoundAnswer(f) == Done(f, "User not found")

\* a balance check that never refuses
NeverInsufficient(currentBalance, amount) == FALSE

\* a balance check that also refuses spending the whole balance
InsufficientOrEqual(currentBalance, amount) == currentBalance <= amount

\* if (currentBalance < update.amount) throw new Error('Insufficient points')
Insufficient(currentBalance, amount) == currentBalance < amount

\* a spend recorded with the sign of an earn
UnsignedChange(amount) == amount

\* change = -update.amount
SpentChange(amount) == 0 - amount

\* the call up to the transaction: findUnique, the balance check, newBalance
UpdatePointsBegin(r, u, pt, a, tt) ==
  /\ LET f == [Idle EXCEPT !.op = "updatePoints", !.uid = u, !.cur = pt,
                           !.amt = a, !.typ = tt] IN
       IF u \notin DOMAIN users
       THEN Start(r, NotFoundAnswer(f))
       ELSE LET currentBalance == PointsOf(users[u], pt) IN
            IF tt = "SPENT"
            THEN IF Insufficient(currentBalance, a)
                 THEN Start(r, Done(f, "Insufficient points"))
                 ELSE Start(r, [f EXCEPT !.pc = "tx", !.cb = currentBalance,
                                         !.nb = currentBalance - a,
                                         !.ch = SpentChange(a)])
            ELSE Start(r, [f EXCEPT !.pc = "tx", !.cb = currentBalance,
                                    !.nb = currentBalance + a, !.ch = a])
  /\ UNCHANGED <<env, users, players, transactions, pointHistory>>
  /\ UNCHANGED relayTables

UpdatePointsRead(S, r, u, pt, a, tt) ==
  /\ LedgerCanStart(S, r)
  /\ UpdatePointsBegin(r, u, pt, a, tt)

UpdatePointsCommit(r) ==
  /\ At(r, "updatePoints", "tx")
  /\ LET f == req[r] IN
       /\ users' = [users EXCEPT ![f.uid] = WithPoints(@, f.cur, f.nb)]
       /\ transactions' =
            CreateRow(transactions, TransactionRow(f.uid, f.typ, f.amt, f.cur))
       /\ pointHistory' =
            CreateRow(pointHistory, HistoryRow(f.uid, f.cur, f.ch, f.cb, f.nb))
  /\ Finish(r, "ok")
  /\ UNCHANGED <<env, players, nOps>>
  /\ UNCHANGED relayTables

----------------------------------------------------------------------------
(* POST /api/admin/users/:userId/adjust-points *)

\* an adjustment applied as requested, without the floor
UnclampedBalance(currentPoints, adjustment) == currentPoints + adjustment

\* newBalance = Math.max(0, currentPoints + adjustment)
ClampedBalance(currentPoints, adjustment) == Max(0, currentPoints + adjustment)

\* isAdmin(req)
IsAdmin(caller) == users[caller].walletAddress = AdminWallet

AdjustPointsRead(S, r, caller, u, p, adjustment) ==
  /\ LedgerCanStart(S, r)
  /\ caller \in DOMAIN users
  /\ LET f == [Idle EXCEPT !.op = "adjustPoints", !.caller = caller,
                           !.uid = u, !.cur = ToUpperCase(p),
                           !.amt = adjustment] IN
       IF ~IsAdmin(caller)
       THEN Start(r, Done(f, "Admin access required"))
       ELSE IF u \notin DOMAIN users
       THEN Start(r, NotFoundAnswer(f))
       ELSE LET currentPoints == PointsOf(users[u], FieldOf(p))
                newBalance == ClampedBalance(currentPoints, adjustment)
                actualAdjustment == newBalance - currentPoints
            IN  Start(r, [f EXCEPT !.pc = "tx", !.cb = currentPoints,
                                   !.nb = newBalance, !.ch = actualAdjustment])
  /\ UNCHANGED <<env, users, players, transactions, pointHistory>>
  /\ UNCHANGED relayTables

AdjustPointsCommit(r) ==
  /\ At(r, "adjustPoints", "tx")
  /\ LET f == req[r] IN
       /\ users' = [users EXCEPT ![f.uid] = WithPoints(@, f.cur, f.nb)]
       /\ transactions' =
            CreateRow(transactions,
                   TransactionRow(f.uid, IF f.amt > 0 THEN "EARNED" ELSE "SPENT",
                                  Abs(f.ch), f.cur))
       /\ pointHistory' =
            CreateRow(pointHistory, HistoryRow(f.uid, f.cur, f.ch, f.cb, f.nb))
  /\ Finish(r, "ok")
  /\ UNCHANGED <<env, players, nOps>>
  /\ UNCHANGED relayTables

----------------------------------------------------------------------------
(* POST /api/points/award *)

AwardRead(S, r, caller, target, p, amount) ==
  /\ LedgerCanStart(S, r)
  /\ caller \in DOMAIN users
  /\ LET f == [Idle EXCEPT !.op = "award", !.caller = caller,
                           !.addr = target, !.cur = ToUpperCase(p),
                           !.amt = amount]
         targetUser == FindByWallet(target)
     IN  IF targetUser = 0
         THEN Start(r, Done(f, "Target user not found"))
         ELSE Start(r, [f EXCEPT !.pc = "tx", !.uid = targetUser,
                                 !.ch = amount,
                                 !.cb = PointsOf(users[targetUser], FieldOf(p))])
  /\ UNCHANGED <<env, users, players, transactions, pointHistory>>
  /\ UNCHANGED relayTables

AwardCommit(r) ==
  /\ At(r, "award", "tx")
  /\ LET f == req[r] IN
       /\ users' = [users EXCEPT ![f.uid] =
                      WithPoints(@, f.cur, PointsOf(@, f.cur) + f.amt)]
       /\ transactions' =
            CreateRow(transactions, TransactionRow(f.uid, "REWARD", f.amt, f.cur))
       /\ pointHistory' =
            CreateRow(pointHistory,
                   HistoryRow(f.uid, f.cur, f.amt, f.cb, f.cb + f.amt))
  /\ Finish(r, "ok")
  /\ UNCHANGED <<env, players, nOps>>
  /\ UNCHANGED relayTables

----------------------------------------------------------------------------
(* POST /api/players/:playerId/unbench *)

\* prisma.player.findFirst({ where: { id, ownerId } })
FindPlayer(pid, owner) ==
  pid \in DOMAIN players /\ players[pid].ownerId = owner

UnbenchFindPlayer(S, r, caller, pid) ==
  /\ LedgerCanStart(S, r)
  /\ caller \in DOMAIN users
  /\ LET f == [Idle EXCEPT !.op = "unbench", !.caller = caller, !.uid = caller,
                           !.pid = pid, !.cur = "SKILL", !.amt = UNBENCH_COST]
     IN  IF ~FindPlayer(pid, caller)
         THEN Start(r, Done(f, "Player not found or not owned by user"))
         ELSE IF ~players[pid].isBenched
         THEN Start(r, Done(f, "Player is already active"))
         ELSE Start(r, [f EXCEPT !.pc = "user"])
  /\ UNCHANGED <<env, users, players, transactions, pointHistory>>
  /\ UNCHANGED relayTables

UnbenchFindUser(r) ==
  /\ At(r, "unbench", "user")
  /\ LET skillPoints == users[req[r].caller].skillPoints IN
       IF skillPoints < UNBENCH_COST
       THEN Finish(r, "Insufficient skill points")
       ELSE req' = [req EXCEPT ![r].pc = "tx", ![r].cb = skillPoints]
  /\ UNCHANGED <<env, users, players, transactions, pointHistory, nOps>>
  /\ UNCHANGED relayTables

UnbenchCommit(r) ==
  /\ At(r, "unbench", "tx")
  /\ LET f == req[r] IN
       /\ users' = [users EXCEPT ![f.caller].skillPoints = @ - UNBENCH_COST]
       /\ players' = [players EXCEPT ![f.pid].isBenched = FALSE]
       /\ transactions' =
            CreateRow(transactions,
                   TransactionRow(f.caller, "SPENT", UNBENCH_COST, "SKILL"))
       /\ pointHistory' =
            CreateRow(pointHistory,
                   HistoryRow(f.caller, "SKILL", 0 - UNBENCH_COST,
                              f.cb, f.cb - UNBENCH_COST))
  /\ Finish(r, "ok")
  /\ UNCHANGED <<env, nOps>>
  /\ UNCHANGED relayTables

----------------------------------------------------------------------------
(* The three copies of "update by increment, then read back, then record":  *)
(* PlayerService.deductSkillPoints, PlayerService.addTournamentPoints and   *)
(* PackService.deductTournamentPoints.  Each line is its own awaited call   *)
(* on the shared client, outside any transaction.                           *)

\* prisma.user.update({ where: { walletAddress: lower }, data: { increment } })
IncrementUpdate(r, op, pt, delta) ==
  /\ At(r, op, "update")
  /\ LET u == FindByWallet(ToLowerCase(req[r].addr)) IN
       IF u = 0
       THEN /\ Finish(r, "Record to update not found")
            /\ UNCHANGED users
       ELSE /\ users' = [users EXCEPT ![u] =
                           WithPoints(@, pt, PointsOf(@, pt) + delta)]
            /\ Goto(r, "find")
  /\ UNCHANGED <<env, players, transactions, pointHistory, nOps>>
  /\ UNCHANGED relayTables

\* const user = await prisma.user.findUnique(...); if (user) { ... }
IncrementFind(r, op, pt) ==
  /\ At(r, op, "find")
  /\ LET u == FindByWallet(ToLowerCase(req[r].addr)) IN
       IF u = 0
       THEN Finish(r, "ok")
       ELSE req' = [req EXCEPT ![r].pc = "record", ![r].uid = u,
                               ![r].cb = PointsOf(users[u], pt)]
  /\ UNCHANGED <<env, users, players, transactions, pointHistory, nOps>>
  /\ UNCHANGED relayTables

\* prisma.transaction.create
IncrementRecord(r, op, type, pt, points) ==
  /\ At(r, op, "record")
  /\ transactions' =
       CreateRow(transactions, TransactionRow(req[r].uid, type, points, pt))
  /\ Goto(r, "history")
  /\ UNCHANGED <<env, users, players, pointHistory, nOps>>
  /\ UNCHANGED relayTables

\* prisma.pointHistory.create
IncrementHistory(r, op, pt, delta) ==
  /\ At(r, op, "history")
  /\ pointHistory' =
       CreateRow(pointHistory,
              HistoryRow(req[r].uid, pt, delta, req[r].cb, req[r].cb + delta))
  /\ Finish(r, "ok")
  /\ UNCHANGED <<env, users, players, transactions, nOps>>
  /\ UNCHANGED relayTables

\* a catch block that would answer failure after the balance had been touched
ChargedDespiteFailure(r, op) ==
  /\ At(r, op, "chain")
  /\ users' = [users EXCEPT ![req[r].caller] =
                 WithPoints(@, req[r].cur, PointsOf(@, req[r].cur) + 1)]
  /\ Finish(r, "chain call failed")
  /\ UNCHANGED <<env, players, transactions, pointHistory, nOps>>
  /\ UNCHANGED relayTables

\* the awaited contract call and tx.wait(): it confirms ...
ChainConfirmed(r, op) ==
  /\ At(r, op, "chain")
  /\ Goto(r, "update")
  /\ UNCHANGED <<env, users, players, transactions, pointHistory, nOps>>
  /\ UNCHANGED relayTables

\* ... or throws or reverts, and the catch block answers success: false
ChainFailed(r, op) ==
  /\ At(r, op, "chain")
  /\ Finish(r, "chain call failed")
  /\ UNCHANGED <<env, users, players, transactions, pointHistory, nOps>>
  /\ UNCHANGED relayTables

----------------------------------------------------------------------------
(* POST /api/players/promote -> PlayerService.promotePlayers *)

\* PlayerService.checkUserSkillPoints
CheckUserSkillPoints(a, requiredPoints) ==
  LET u == FindByWallet(ToLowerCase(a)) IN
    IF u = 0 THEN FALSE ELSE users[u].skillPoints >= requiredPoints

PromotePlayersCheck(S, r, caller, shares) ==
  /\ LedgerCanStart(S, r)
  /\ caller \in DOMAIN users
  /\ LET pointsRequired == GetPromotionCost(shares)
         f == [Idle EXCEPT !.op = "promote", !.caller = caller,
                           !.addr = users[caller].walletAddress,
                           !.shares = shares, !.cur = "SKILL",
                           !.amt = pointsRequired]
     IN  IF ~PackIssuerConfigured
         THEN Start(r, Done(f, "PackIssuer not configured"))
         ELSE IF ~CheckUserSkillPoints(f.addr, pointsRequired)
         THEN Start(r, Done(f, "Insufficient skill points"))
         ELSE Start(r, [f EXCEPT !.pc = "chain"])
  /\ UNCHANGED <<env, users, players, transactions, pointHistory>>
  /\ UNCHANGED relayTables

PromotePlayersConfirmed(r) == ChainConfirmed(r, "promote")
PromotePlayersFailed(r) == ChainFailed(r, "promote")

DeductSkillPointsUpdate(r) ==
  IncrementUpdate(r, "promote", "SKILL", 0 - req[r].amt)
DeductSkillPointsFind(r) ==
  IncrementFind(r, "promote", "SKILL")
DeductSkillPointsRecord(r) ==
  IncrementRecord(r, "promote", "PLAYER_PROMOTION", "SKILL", req[r].amt)
DeductSkillPointsHistory(r) ==
  IncrementHistory(r, "promote", "SKILL", 0 - req[r].amt)

----------------------------------------------------------------------------
(* POST /api/players/cut -> PlayerService.cutPlayers *)

CutPlayersBegin(S, r, caller, shares) ==
  /\ LedgerCanStart(S, r)
  /\ caller \in DOMAIN users
  /\ LET f == [Idle EXCEPT !.op = "cut", !.caller = caller,
                           !.addr = users[caller].walletAddress,
                           !.shares = shares, !.cur = "TOURNAMENT",
                           !.amt = PointsEarned(shares)]
     IN  IF ~PackIssuerConfigured
         THEN Start(r, Done(f, "PackIssuer not configured"))
         ELSE Start(r, [f EXCEPT !.pc = "chain"])
  /\ UNCHANGED <<env, users, players, transactions, pointHistory>>
  /\ UNCHANGED relayTables

CutPlayersConfirmed(r) == ChainConfirmed(r, "cut")
CutPlayersFailed(r) == ChainFailed(r, "cut")

AddTournamentPointsUpdate(r) ==
  IncrementUpdate(r, "cut", "TOURNAMENT", req[r].amt)
AddTournamentPointsFind(r) ==
  IncrementFind(r, "cut", "TOURNAMENT")
AddTournamentPointsRecord(r) ==
  IncrementRecord(r, "cut", "PLAYER_CUT", "TOURNAMENT", req[r].amt)
AddTournamentPointsHistory(r) ==
  IncrementHistory(r, "cut", "TOURNAMENT", req[r].amt)

----------------------------------------------------------------------------
(* POST /api/packs/:packType/purchase -> PackService.purchasePack *)

\* PackService.checkUserTournamentPoints
CheckUserTournamentPoints(a, requiredPoints) ==
  LET u == FindByWallet(ToLowerCase(a)) IN
    IF u = 0 THEN FALSE ELSE users[u].tournamentPoints >= requiredPoints

\* the route's own check before it calls the service
PurchaseRouteCheck(S, r, caller, packType) ==
  /\ LedgerCanStart(S, r)
  /\ caller \in DOMAIN users
  /\ LET packCost == GetPackCost(packType)
         f == [Idle EXCEPT !.op = "purchase", !.caller = caller,
                           !.addr = users[caller].walletAddress,
                           !.typ = packType, !.cur = "TOURNAMENT",
                           !.amt = packCost]
     IN  IF ~CheckUserTournamentPoints(f.addr, packCost)
         THEN Start(r, Done(f, "Insufficient tournament points"))
         ELSE Start(r, [f EXCEPT !.pc = "check"])
  /\ UNCHANGED <<env, users, players, transactions, pointHistory>>
  /\ UNCHANGED relayTables

\* purchasePack: checkPackIssuer, then the same check again
PurchasePackCheck(r) ==
  /\ At(r, "purchase", "check")
  /\ IF ~PackIssuerConfigured
     THEN Finish(r, "PackIssuer not configured")
     ELSE IF ~CheckUserTournamentPoints(req[r].addr, req[r].amt)
     THEN Finish(r, "Insufficient tournament points")
     ELSE Goto(r, "chain")
  /\ UNCHANGED <<env, users, players, transactions, pointHistory, nOps>>
  /\ UNCHANGED relayTables

PurchasePackConfirmed(r) == ChainConfirmed(r, "purchase")
PurchasePackFailed(r) == ChainFailed(r, "purchase")

DeductTournamentPointsUpdate(r) ==
  IncrementUpdate(r, "purchase", "TOURNAMENT", 0 - req[r].amt)
DeductTournamentPointsFind(r) ==
  IncrementFind(r, "purchase", "TOURNAMENT")
DeductTournamentPointsRecord(r) ==
  IncrementRecord(r, "purchase", "PACK_PURCHASE", "TOURNAMENT", req[r].amt)
DeductTournamentPointsHistory(r) ==
  IncrementHistory(r, "purchase", "TOURNAMENT", 0 - req[r].amt)

----------------------------------------------------------------------------
(* Storage failures: an awaited write rejects.  Inside prisma.$transaction  *)
(* the callback throws and the whole block rolls back; outside one, the     *)
(* writes already made stay.                                                *)

TransactionRollback(r) ==
  /\ req[r].op \in {"updatePoints", "adjustPoints", "award", "unbench"}
  /\ req[r].pc = "tx"
  /\ Finish(r, "storage failure")
  /\ UNCHANGED <<env, users, players, transactions, pointHistory, nOps>>
  /\ UNCHANGED relayTables

WriteRejected(r) ==
  /\ req[r].op \in {"promote", "cut", "purchase"}
  /\ req[r].pc \in {"update", "find", "record", "history"}
  /\ Finish(r, "storage failure")
  /\ UNCHANGED <<env, users, players, transactions, pointHistory, nOps>>
  /\ UNCHANGED relayTables

----------------------------------------------------------------------------
(* The ledger *)

InitLedger ==
  /\ env = [MONAD_RPC_URL |-> TRUE, TX_SIGNER_PRIVATE_KEY |-> TRUE,
            PACK_ISSUER_PRIVATE_KEY |-> TRUE]
  /\ users = (1 :> NewUser(AdminWallet))
  /\ players = [t \in TokenIds |-> [ownerId |-> 1, isBenched |-> TRUE]]
  /\ transactions = <<>>
  /\ pointHistory = <<>>
  /\ buyTxs = <<>>
  /\ sellTxs = <<>>
  /\ usedNonces = [c \in Contracts |-> [b \in Bodies |-> 0]]
  /\ idSeq = 0
  /\ now = 0
  /\ req = [r \in Slots |-> Idle]
  /\ nOps = 0

LedgerSteps(S) ==
  \/ \E a \in Addresses : Login(a)
  \/ \E r \in S, u \in UserIds, pt \in PointTypes, a \in UpdateAmounts,
        tt \in UpdateTypes : UpdatePointsRead(S, r, u, pt, a, tt)
  \/ \E r \in S : UpdatePointsCommit(r)
  \/ \E r \in S, c \in UserIds, u \in UserIds, p \in PointTypeParams,
        d \in Adjustments : AdjustPointsRead(S, r, c, u, p, d)
  \/ \E r \in S : AdjustPointsCommit(r)
  \/ \E r \in S, c \in UserIds, t \in Addresses, p \in PointTypeParams,
        a \in AwardAmounts : AwardRead(S, r, c, t, p, a)
  \/ \E r \in S : AwardCommit(r)
  \/ \E r \in S, c \in UserIds, pid \in TokenIds : UnbenchFindPlayer(S, r, c, pid)
  \/ \E r \in S : UnbenchFindUser(r)
  \/ \E r \in S : UnbenchCommit(r)
  \/ \E r \in S, c \in UserIds, sh \in ShareLists : PromotePlayersCheck(S, r, c, sh)
  \/ \E r \in S : PromotePlayersConfirmed(r)
  \/ \E r \in S : PromotePlayersFailed(r)
  \/ \E r \in S : DeductSkillPointsUpdate(r)
  \/ \E r \in S : DeductSkillPointsFind(r)
  \/ \E r \in S : DeductSkillPointsRecord(r)
  \/ \E r \in S : DeductSkillPointsHistory(r)
  \/ \E r \in S, c \in UserIds, sh \in ShareLists : CutPlayersBegin(S, r, c, sh)
  \/ \E r \in S : CutPlayersConfirmed(r)
  \/ \E r \in S : CutPlayersFailed(r)
  \/ \E r \in S : AddTournamentPointsUpdate(r)
  \/ \E r \in S : AddTournamentPointsFind(r)
  \/ \E r \in S : AddTournamentPointsRecord(r)
  \/ \E r \in S : AddTournamentPointsHistory(r)
  \/ \E r \in S, c \in UserIds, k \in PurchasedTypes : PurchaseRouteCheck(S, r, c, k)
  \/ \E r \in S : PurchasePackCheck(r)
  \/ \E r \in S : PurchasePackConfirmed(r)
  \/ \E r \in S : PurchasePackFailed(r)
  \/ \E r \in S : DeductTournamentPointsUpdate(r)
  \/ \E r \in S : DeductTournamentPointsFind(r)
  \/ \E r \in S : DeductTournamentPointsRecord(r)
  \/ \E r \in S : DeductTournamentPointsHistory(r)

LedgerFaults(S) ==
  \/ \E r \in S : TransactionRollback(r)
  \/ \E r \in S : WriteRejected(r)

\* requests arrive while others are in flight
NextLedger == LedgerSteps(Slots)
SpecLedger == InitLedger /\ [][NextLedger]_vars

\* one request at a time
NextLedgerSeq == LedgerSteps({1})
SpecLedgerSeq == InitLedger /\ [][NextLedgerSeq]_vars

\* one request at a time, over a store whose writes can fail
NextLedgerFaults == LedgerSteps({1}) \/ LedgerFaults({1})
SpecLedgerFaults == InitLedger /\ [][NextLedgerFaults]_vars

\* the admin route alone, one request at a time, over accounts of any balance
InitAdjust ==
  /\ env = [MONAD_RPC_URL |-> TRUE, TX_SIGNER_PRIVATE_KEY |-> TRUE,
            PACK_ISSUER_PRIVATE_KEY |-> TRUE]
  /\ \E t \in StartBalances, k \in StartBalances :
       users = (1 :> [walletAddress |-> AdminWallet,
                      tournamentPoints |-> t, skillPoints |-> k])
  /\ players = [t \in TokenIds |-> [ownerId |-> 1, isBenched |-> TRUE]]
  /\ transactions = <<>>
  /\ pointHistory = <<>>
  /\ buyTxs = <<>>
  /\ sellTxs = <<>>
  /\ usedNonces = [c \in Contracts |-> [b \in Bodies |-> 0]]
  /\ idSeq = 0
  /\ now = 0
  /\ req = [r \in Slots |-> Idle]
  /\ nOps = 0

NextAdjust ==
  \/ \E u \in UserIds, p \in PointTypeParams, d \in AdjustDeltas :
       AdjustPointsRead({1}, 1, 1, u, p, d)
  \/ AdjustPointsCommit(1)

SpecAdjust == InitAdjust /\ [][NextAdjust]_vars

\* PointsService.updatePoints alone, one call at a time
NextPoints ==
  \/ \E u \in UserIds, pt \in PointTypes, a \in PointsAmounts, tt \in UpdateTypes :
       /\ CanStart({1}, 1)
       /\ nOps < MaxPointsOps
       /\ UpdatePointsBegin(1, u, pt, a, tt)
  \/ UpdatePointsCommit(1)

SpecPoints == InitLedger /\ [][NextPoints]_vars

----------------------------------------------------------------------------
(* Signing service and chain *)

\* EIP712SignatureService.initializeProvider: this.provider
ProviderConfigured == env.MONAD_RPC_URL

\* EIP712SignatureService.initializeProvider: this.txSigner
TxSignerConfigured == env.MONAD_RPC_URL /\ env.TX_SIGNER_PRIVATE_KEY

\* getOnChainNonce: Number(currentNonce) + 1
OnChainNonce(contract, a) == usedNonces[contract][a.body] + 1

\* signTypedData over the typed message; the address field is its 20 bytes
SignTypedData(contract, a, nonce) ==
  [contract |-> contract, from |-> a.body, nonce |-> nonce]

\* a nonce query that never finds a row
NoDbNonce(rows, u) == 0

\* SELECT nonce_used ... WHERE user_id = u ORDER BY nonce_used DESC LIMIT 1,
\* and 0 for an empty result
RECURSIVE LastDbNonce(_, _)
LastDbNonce(rows, u) ==
  IF rows = <<>> THEN 0
  ELSE LET rest == LastDbNonce(Tail(rows), u) IN
         IF Head(rows).userId = u THEN Max(Head(rows).nonceUsed, rest) ELSE rest

BuyRow(id, u, nonce, sig) ==
  [id |-> id, userId |-> u, nonceUsed |-> nonce, signature |-> sig,
   status |-> "pending", txHash |-> "null", createdAt |-> now,
   confirmedAt |-> 0]

SellRow(id, a, nonce, sig) ==
  [id |-> id, userAddress |-> a, nonce |-> nonce, signature |-> sig,
   status |-> "pending", txHash |-> "null", createdAt |-> now,
   updatedAt |-> now]

\* the index of the row with this id, or 0
RowIndex(rows, id) ==
  IF \E i \in 1..Len(rows) : rows[i].id = id
  THEN CHOOSE i \in 1..Len(rows) : rows[i].id = id
  ELSE 0

\* the user submits a signed message and the contract consumes its nonce
ChainConsume(contract, b) ==
  /\ \/ /\ contract = "FDFPair"
        /\ \E i \in 1..Len(buyTxs) :
             buyTxs[i].signature =
               [contract |-> contract, from |-> b,
                nonce |-> usedNonces[contract][b] + 1]
     \/ /\ contract = "Player"
        /\ \E i \in 1..Len(sellTxs) :
             sellTxs[i].signature =
               [contract |-> contract, from |-> b,
                nonce |-> usedNonces[contract][b] + 1]
  /\ usedNonces' = [usedNonces EXCEPT ![contract][b] = @ + 1]
  /\ UNCHANGED <<env, buyTxs, sellTxs, idSeq, now, req, nOps>>
  /\ UNCHANGED ledgerTables

----------------------------------------------------------------------------
(* BuyTokensService.prepareSignature *)

BuyPrepareFindUser(S, r, buyer) ==
  /\ RelayCanStart(S, r)
  /\ LET f == [Idle EXCEPT !.op = "buyPrepare", !.addr = buyer]
         u == FindByWallet(buyer)
     IN  IF u = 0
         THEN Start(r, [f EXCEPT !.pc = "create"])
         ELSE Start(r, [f EXCEPT !.pc = "chain", !.uid = u])
  /\ UNCHANGED <<env, buyTxs, sellTxs, usedNonces, idSeq, now>>
  /\ UNCHANGED ledgerTables

\* prisma.user.create under the unique index on walletAddress
BuyPrepareCreateUser(r) ==
  /\ At(r, "buyPrepare", "create")
  /\ IF FindByWallet(req[r].addr) # 0
     THEN /\ Finish(r, "Unique constraint failed")
          /\ UNCHANGED users
     ELSE LET id == Cardinality(DOMAIN users) + 1 IN
            /\ users' = [u \in DOMAIN users \cup {id} |->
                           IF u = id THEN NewUser(req[r].addr) ELSE users[u]]
            /\ req' = [req EXCEPT ![r].pc = "chain", ![r].uid = id]
  /\ UNCHANGED <<env, players, transactions, pointHistory, nOps>>
  /\ UNCHANGED relayTables

\* getOnChainNonce answers
BuyPrepareChainNonce(r) ==
  /\ At(r, "buyPrepare", "chain")
  /\ ProviderConfigured
  /\ req' = [req EXCEPT ![r].pc = "query",
                        ![r].chainNonce = OnChainNonce("FDFPair", req[r].addr)]
  /\ UNCHANGED <<env, nOps>>
  /\ UNCHANGED ledgerTables
  /\ UNCHANGED relayTables

\* getOnChainNonce throws: no provider, or the RPC call fails
BuyPrepareChainFailed(r) ==
  /\ At(r, "buyPrepare", "chain")
  /\ Goto(r, "fallback")
  /\ UNCHANGED <<env, nOps>>
  /\ UNCHANGED ledgerTables
  /\ UNCHANGED relayTables

\* a choice that trusts the chain answer alone
ChainNonceOnly(onChainNonce, lastDbNonce) == onChainNonce

\* nextNonce = Math.max(onChainNonce, lastDbNonce + 1)
NextNonce(onChainNonce, lastDbNonce) == Max(onChainNonce, lastDbNonce + 1)

\* the nonce query after the chain answered, and the choice of the nonce
BuyPrepareQuery(r) ==
  /\ At(r, "buyPrepare", "query")
  /\ LET lastDbNonce == LastDbNonce(buyTxs, req[r].uid) IN
       req' = [req EXCEPT ![r].pc = "sign",
                          ![r].nonce = NextNonce(req[r].chainNonce, lastDbNonce)]
  /\ UNCHANGED <<env, nOps>>
  /\ UNCHANGED ledgerTables
  /\ UNCHANGED relayTables

\* the catch block: the database nonce alone
BuyPrepareFallback(r) ==
  /\ At(r, "buyPrepare", "fallback")
  /\ req' = [req EXCEPT ![r].pc = "sign",
                        ![r].nonce = LastDbNonce(buyTxs, req[r].uid) + 1]
  /\ UNCHANGED <<env, nOps>>
  /\ UNCHANGED ledgerTables
  /\ UNCHANGED relayTables

\* createBuyTokensSignature / createSellTokensSignature: checkSigner, then sign
Sign(r, op, contract) ==
  /\ At(r, op, "sign")
  /\ IF ~TxSignerConfigured
     THEN Finish(r, "TxSigner not configured")
     ELSE req' = [req EXCEPT ![r].pc = "insert",
                    ![r].sig = SignTypedData(contract, req[r].addr, req[r].nonce)]
  /\ UNCHANGED <<env, nOps>>
  /\ UNCHANGED ledgerTables
  /\ UNCHANGED relayTables

BuyPrepareSign(r) == Sign(r, "buyPrepare", "FDFPair")

\* INSERT with a generated id; the id returned is generated afterwards, the
\* nonce returned is nextNonce
BuyPrepareInsert(r) ==
  /\ At(r, "buyPrepare", "insert")
  /\ buyTxs' = Append(buyTxs, BuyRow(idSeq + 1, req[r].uid, req[r].nonce,
                                     req[r].sig))
  /\ idSeq' = idSeq + 2
  /\ now' = now + 1
  /\ req' = [req EXCEPT ![r] = [Done(@, "ok") EXCEPT !.ret = idSeq + 2,
                                                     !.retNonce = req[r].nonce]]
  /\ UNCHANGED <<env, sellTxs, usedNonces, nOps>>
  /\ UNCHANGED ledgerTables

----------------------------------------------------------------------------
(* POST /api/buyTokens/prepare-signature *)

BuyRouteChainNonce(S, r, caller) ==
  /\ RelayCanStart(S, r)
  /\ caller \in DOMAIN users
  /\ ProviderConfigured
  /\ LET a == users[caller].walletAddress IN
       Start(r, [Idle EXCEPT !.op = "buyRoute", !.pc = "sign",
                             !.caller = caller, !.uid = caller, !.addr = a,
                             !.chainNonce = OnChainNonce("FDFPair", a),
                             !.nonce = OnChainNonce("FDFPair", a)])
  /\ UNCHANGED <<env>>
  /\ UNCHANGED ledgerTables
  /\ UNCHANGED relayTables

BuyRouteChainFailed(S, r, caller) ==
  /\ RelayCanStart(S, r)
  /\ caller \in DOMAIN users
  /\ Start(r, Done([Idle EXCEPT !.op = "buyRoute", !.caller = caller,
                                !.uid = caller,
                                !.addr = users[caller].walletAddress],
                   "Failed to prepare signature"))
  /\ UNCHANGED <<env>>
  /\ UNCHANGED ledgerTables
  /\ UNCHANGED relayTables

BuyRouteSign(r) ==
  /\ At(r, "buyRoute", "sign")
  /\ IF ~TxSignerConfigured
     THEN Finish(r, "Failed to prepare signature")
     ELSE req' = [req EXCEPT ![r].pc = "insert",
                    ![r].sig = SignTypedData("FDFPair", req[r].addr, req[r].nonce)]
  /\ UNCHANGED <<env, nOps>>
  /\ UNCHANGED ledgerTables
  /\ UNCHANGED relayTables

\* BuyTokensService.createTransaction; the response carries transaction.id
\* and txData.nonce
BuyRouteCreate(r) ==
  /\ At(r, "buyRoute", "insert")
  /\ buyTxs' = Append(buyTxs, BuyRow(idSeq + 1, req[r].uid, req[r].nonce,
                                     req[r].sig))
  /\ idSeq' = idSeq + 1
  /\ now' = now + 1
  /\ req' = [req EXCEPT ![r] = [Done(@, "ok") EXCEPT !.ret = idSeq + 1,
                                                     !.retNonce = req[r].nonce]]
  /\ UNCHANGED <<env, sellTxs, usedNonces, nOps>>
  /\ UNCHANGED ledgerTables

----------------------------------------------------------------------------
(* POST /api/sell-tokens/prepare-signature ->                              *)
(* SellTokensService.prepareSellTokensSignature, for a valid request       *)

SellPrepareChainNonce(S, r, caller) ==
  /\ RelayCanStart(S, r)
  /\ caller \in DOMAIN users
  /\ ProviderConfigured
  /\ LET a == users[caller].walletAddress IN
       Start(r, [Idle EXCEPT !.op = "sellPrepare", !.pc = "sign",
                             !.caller = caller, !.uid = caller, !.addr = a,
                             !.chainNonce = OnChainNonce("Player", a),
                             !.nonce = OnChainNonce("Player", a)])
  /\ UNCHANGED <<env>>
  /\ UNCHANGED ledgerTables
  /\ UNCHANGED relayTables

\* the catch block answers success: false with the error's message
SellPrepareChainFailed(S, r, caller) ==
  /\ RelayCanStart(S, r)
  /\ caller \in DOMAIN users
  /\ Start(r, Done([Idle EXCEPT !.op = "sellPrepare", !.caller = caller,
                                !.uid = caller,
                                !.addr = users[caller].walletAddress],
                   IF ProviderConfigured
                   THEN "Failed to get nonce from Player contract"
                   ELSE "Provider not configured"))
  /\ UNCHANGED <<env>>
  /\ UNCHANGED ledgerTables
  /\ UNCHANGED relayTables

SellPrepareSign(r) == Sign(r, "sellPrepare", "Player")

\* the response carries signature, transactionId, contractAddress and
\* txSignerAddress, and no nonce
SellPrepareCreate(r) ==
  /\ At(r, "sellPrepare", "insert")
  /\ sellTxs' = Append(sellTxs, SellRow(idSeq + 1, req[r].addr, req[r].nonce,
                                        req[r].sig))
  /\ idSeq' = idSeq + 1
  /\ now' = now + 1
  /\ req' = [req EXCEPT ![r] = [Done(@, "ok") EXCEPT !.ret = idSeq + 1]]
  /\ UNCHANGED <<env, buyTxs, usedNonces, nOps>>
  /\ UNCHANGED ledgerTables

----------------------------------------------------------------------------
(* POST /api/buyTokens/transaction/:id/confirm ->                          *)
(* BuyTokensService.confirmTransaction                                     *)

\* the request with everything its body carries: the route reads txHash and
\* nothing else, so a status in the body reaches no code
BuyConfirmRequest(S, r, caller, id, txHash, status) ==
  /\ RelayCanStart(S, r)
  /\ caller \in DOMAIN users
  /\ LET f == [Idle EXCEPT !.op = "buyConfirm", !.caller = caller,
                           !.pid = id, !.txHash = txHash, !.typ = status]
         i == RowIndex(buyTxs, id)
     IN  IF i # 0 /\ buyTxs[i].userId = caller /\ buyTxs[i].status = "pending"
         THEN Start(r, [f EXCEPT !.pc = "update"])
         ELSE Start(r, Done(f, "Transaction not found or access denied"))
  /\ UNCHANGED <<env>>
  /\ UNCHANGED ledgerTables
  /\ UNCHANGED relayTables

\* the request as the API documents it: a body of { txHash }
BuyConfirmFind(S, r, caller, id, txHash) ==
  BuyConfirmRequest(S, r, caller, id, txHash, "none")

BuyConfirmUpdate(r) ==
  /\ At(r, "buyConfirm", "update")
  /\ LET i == RowIndex(buyTxs, req[r].pid) IN
       buyTxs' = [buyTxs EXCEPT ![i].status = "confirmed",
                                ![i].txHash = req[r].txHash,
                                ![i].confirmedAt = now + 1]
  /\ now' = now + 1
  /\ Finish(r, "ok")
  /\ UNCHANGED <<env, sellTxs, usedNonces, idSeq, nOps>>
  /\ UNCHANGED ledgerTables

----------------------------------------------------------------------------
(* POST /api/sell-tokens/transaction/:id/confirm *)

\* a confirm route without the ownership check
SellAccessNeverDenied(row, caller) == FALSE

\* transaction.userAddress.toLowerCase() !== userAddress.toLowerCase()
SellAccessDenied(row, caller) ==
  ToLowerCase(row.userAddress) # ToLowerCase(users[caller].walletAddress)

\* SellTokensService.getTransaction, then the ownership check
SellConfirmGet(S, r, caller, id, txHash, status) ==
  /\ RelayCanStart(S, r)
  /\ caller \in DOMAIN users
  /\ LET f == [Idle EXCEPT !.op = "sellConfirm", !.caller = caller,
                           !.pid = id, !.txHash = txHash, !.typ = status]
         i == RowIndex(sellTxs, id)
     IN  IF i = 0
         THEN Start(r, Done(f, "Transaction not found or access denied"))
         ELSE IF SellAccessDenied(sellTxs[i], caller)
         THEN Start(r, Done(f, "Access denied"))
         ELSE Start(r, [f EXCEPT !.pc = "update"])
  /\ UNCHANGED <<env>>
  /\ UNCHANGED ledgerTables
  /\ UNCHANGED relayTables

\* SellTokensService.updateTransactionStatus
SellConfirmUpdate(r) ==
  /\ At(r, "sellConfirm", "update")
  /\ LET i == RowIndex(sellTxs, req[r].pid) IN
       sellTxs' = [sellTxs EXCEPT ![i].status = req[r].typ,
                                  ![i].txHash = req[r].txHash,
                                  ![i].updatedAt = now + 1]
  /\ now' = now + 1
  /\ Finish(r, "ok")
  /\ UNCHANGED <<env, buyTxs, usedNonces, idSeq, nOps>>
  /\ UNCHANGED ledgerTables

----------------------------------------------------------------------------
(* The relay *)

Environments ==
  {[MONAD_RPC_URL |-> TRUE, TX_SIGNER_PRIVATE_KEY |-> TRUE,
    PACK_ISSUER_PRIVATE_KEY |-> TRUE],
   [MONAD_RPC_URL |-> TRUE, TX_SIGNER_PRIVATE_KEY |-> FALSE,
    PACK_ISSUER_PRIVATE_KEY |-> TRUE],
   [MONAD_RPC_URL |-> FALSE, TX_SIGNER_PRIVATE_KEY |-> TRUE,
    PACK_ISSUER_PRIVATE_KEY |-> TRUE]}

InitRelay ==
  /\ env \in Environments
  /\ users = (1 :> NewUser(AdminWallet))
  /\ players = [t \in TokenIds |-> [ownerId |-> 1, isBenched |-> TRUE]]
  /\ transactions = <<>>
  /\ pointHistory = <<>>
  /\ buyTxs = <<>>
  /\ sellTxs = <<>>
  /\ usedNonces = [c \in Contracts |-> [b \in Bodies |-> 0]]
  /\ idSeq = 0
  /\ now = 0
  /\ req = [r \in Slots |-> Idle]
  /\ nOps = 0

\* req.params.id of a confirm request: the id of a stored row, or an id that
\* names no row
ConfirmIds(rows) == {rows[i].id : i \in 1..Len(rows)} \cup {idSeq + 1}

RelaySteps(S) ==
  \/ \E c \in Contracts, b \in Bodies : ChainConsume(c, b)
  \/ \E r \in S, a \in BuyerAddresses : BuyPrepareFindUser(S, r, a)
  \/ \E r \in S : BuyPrepareCreateUser(r)
  \/ \E r \in S : BuyPrepareChainNonce(r)
  \/ \E r \in S : BuyPrepareChainFailed(r)
  \/ \E r \in S : BuyPrepareQuery(r)
  \/ \E r \in S : BuyPrepareFallback(r)
  \/ \E r \in S : BuyPrepareSign(r)
  \/ \E r \in S : BuyPrepareInsert(r)
  \/ \E r \in S, c \in UserIds : BuyRouteChainNonce(S, r, c)
  \/ \E r \in S, c \in UserIds : BuyRouteChainFailed(S, r, c)
  \/ \E r \in S : BuyRouteSign(r)
  \/ \E r \in S : BuyRouteCreate(r)
  \/ \E r \in S, c \in UserIds : SellPrepareChainNonce(S, r, c)
  \/ \E r \in S, c \in UserIds : SellPrepareChainFailed(S, r, c)
  \/ \E r \in S : SellPrepareSign(r)
  \/ \E r \in S : SellPrepareCreate(r)
  \/ \E r \in S, c \in UserIds, id \in ConfirmIds(buyTxs), h \in TxHashes :
       BuyConfirmFind(S, r, c, id, h)
  \/ \E r \in S : BuyConfirmUpdate(r)
  \/ \E r \in S, c \in UserIds, id \in ConfirmIds(sellTxs), h \in TxHashes,
        st \in {"confirmed", "failed"} : SellConfirmGet(S, r, c, id, h, st)
  \/ \E r \in S : SellConfirmUpdate(r)

\* requests arrive while others are in flight
NextRelay == RelaySteps(Slots)
SpecRelay == InitRelay /\ [][NextRelay]_vars

\* one request at a time
NextRelaySeq == RelaySteps({1})
SpecRelaySeq == InitRelay /\ [][NextRelaySeq]_vars

\* an insert that fails and yet leaves its row
PartialInsert(rows, row) == Append(rows, row)

\* the table after an INSERT that the database rejected: the statement is
\* the only write of the call, so the table is as it was
RejectedInsert(rows, row) == rows

\* the awaited INSERT of a prepare call rejects and the call fails
InsertRejected(r) ==
  /\ req[r].op \in {"buyPrepare", "buyRoute", "sellPrepare"}
  /\ req[r].pc = "insert"
  /\ buyTxs' = IF req[r].op = "sellPrepare" THEN buyTxs
               ELSE RejectedInsert(buyTxs, BuyRow(idSeq + 1, req[r].uid,
                                                  req[r].nonce, req[r].sig))
  /\ sellTxs' = IF req[r].op # "sellPrepare" THEN sellTxs
                ELSE RejectedInsert(sellTxs, SellRow(idSeq + 1, req[r].addr,
                                                     req[r].nonce, req[r].sig))
  /\ Finish(r, "storage failure")
  /\ UNCHANGED <<env, usedNonces, idSeq, now, nOps>>
  /\ UNCHANGED ledgerTables

\* one request at a time, over a store whose inserts can fail
NextRelayFaults == RelaySteps({1}) \/ InsertRejected(1)
SpecRelayFaults == InitRelay /\ [][NextRelayFaults]_vars

\* BuyTokensService.prepareSignature alone, one request at a time, against a
\* contract that has already consumed some nonces of the buyers
InitBuyPrepare ==
  /\ env \in Environments
  /\ users = (1 :> NewUser(AdminWallet))
  /\ players = [t \in TokenIds |-> [ownerId |-> 1, isBenched |-> TRUE]]
  /\ transactions = <<>>
  /\ pointHistory = <<>>
  /\ buyTxs = <<>>
  /\ sellTxs = <<>>
  /\ \E n \in 0..MaxStartNonce :
       usedNonces = [c \in Contracts |->
                       [b \in Bodies |-> IF c = "FDFPair" THEN n ELSE 0]]
  /\ idSeq = 0
  /\ now = 0
  /\ req = [r \in Slots |-> Idle]
  /\ nOps = 0

NextBuyPrepare ==
  \/ \E b \in Bodies : ChainConsume("FDFPair", b)
  \/ \E a \in BuyerAddresses : BuyPrepareFindUser({1}, 1, a)
  \/ BuyPrepareCreateUser(1)
  \/ BuyPrepareChainNonce(1)
  \/ BuyPrepareChainFailed(1)
  \/ BuyPrepareQuery(1)
  \/ BuyPrepareFallback(1)
  \/ BuyPrepareSign(1)
  \/ BuyPrepareInsert(1)

SpecBuyPrepare == InitBuyPrepare /\ [][NextBuyPrepare]_vars

\* the steps the process takes by itself once the awaited call has settled;
\* an answer of the RPC node, or an error from it, is not among them: the
\* call is awaited with no timeout
BuyPrepareProgress ==
  /\ WF_vars(BuyPrepareCreateUser(1))
  /\ WF_vars(~ProviderConfigured /\ BuyPrepareChainFailed(1))
  /\ WF_vars(BuyPrepareQuery(1))
  /\ WF_vars(BuyPrepareFallback(1))
  /\ WF_vars(BuyPrepareSign(1))
  /\ WF_vars(BuyPrepareInsert(1))

SpecBuyPrepareLive ==
  InitBuyPrepare /\ [][NextBuyPrepare]_vars /\ BuyPrepareProgress

----------------------------------------------------------------------------
(* Ledger properties *)

CreatedWith(pt) ==
  IF pt = "TOURNAMENT" THEN StartTournamentPoints ELSE StartSkillPoints

\* the point_history rows of one account and currency, in creation order
HistoryOf(u, pt) ==
  SelectSeq(pointHistory, LAMBDA h : h.userId = u /\ h.pointType = pt)

TransactionsOf(u, pt) ==
  SelectSeq(transactions, LAMBDA t : t.userId = u /\ t.pointType = pt)

RECURSIVE SumChanges(_)
SumChanges(h) ==
  IF h = <<>> THEN 0 ELSE Head(h).change + SumChanges(Tail(h))

Replay(u, pt) == CreatedWith(pt) + SumChanges(HistoryOf(u, pt))

Quiescent == \A r \in Slots : Free(r)

\* both slots hold answered requests of the given kinds on one balance, and
\* no other request was made
ConcurrentPair(ops) ==
  /\ nOps = 2
  /\ \A r \in Slots : req[r].pc = "done" /\ req[r].op \in ops
  /\ req[1].uid = req[2].uid
  /\ req[1].cur = req[2].cur

\* C1: whenever every request has answered, replaying the point_history rows
\* of an account and currency in creation order from the balance the account
\* was created with gives the stored balance.
C1_ReplayReproducesBalance ==
  Quiescent =>
    \A u \in DOMAIN users, pt \in PointTypes :
      Replay(u, pt) = PointsOf(users[u], pt)

\* C2: tournamentPoints and skillPoints of every account are never negative.
C2_BalancesNonNegative ==
  \A u \in DOMAIN users :
    users[u].tournamentPoints >= 0 /\ users[u].skillPoints >= 0

\* C5: two concurrent spend calls on one balance: the amounts of those that
\* succeed sum to at most the initial balance, the others fail with
\* "Insufficient points", and the final balance is the initial balance minus
\* the succeeded amounts.
C5_ConcurrentSpends ==
  (ConcurrentPair({"updatePoints"}) /\ \A r \in Slots : req[r].typ = "SPENT") =>
    LET u == req[1].uid
        pt == req[1].cur
        spent(r) == IF req[r].res = "ok" THEN req[r].amt ELSE 0
    IN  /\ \A r \in Slots : req[r].res \in {"ok", "Insufficient points"}
        /\ spent(1) + spent(2) <= CreatedWith(pt)
        /\ PointsOf(users[u], pt) = CreatedWith(pt) - (spent(1) + spent(2))

\* C6: two concurrent successful adjustments of one balance (earn, spend,
\* admin adjust, award): the final balance is the initial balance plus the
\* two applied deltas.
C6_NoLostUpdate ==
  (ConcurrentPair({"updatePoints", "adjustPoints", "award"})
     /\ \A r \in Slots : req[r].res = "ok") =>
    PointsOf(users[req[1].uid], req[1].cur) =
      CreatedWith(req[1].cur) + req[1].ch + req[2].ch

\* C7: once an operation has answered, also with a storage failure, every
\* balance differs from its created value by exactly the changes that have
\* a point_history row, and each such row has its transactions row.
C7_AllOrNothing ==
  Quiescent =>
    \A u \in DOMAIN users, pt \in PointTypes :
      /\ Len(TransactionsOf(u, pt)) = Len(HistoryOf(u, pt))
      /\ PointsOf(users[u], pt) - CreatedWith(pt) = SumChanges(HistoryOf(u, pt))

\* C8: every point_history row agrees with the balance it describes: its
\* previousBalance is the balance before its mutation (the created balance,
\* or the newBalance of the row before it), and the newBalance of the last
\* row is the stored balance.
C8_HistoryAgreesWithBalance ==
  Quiescent =>
    \A u \in DOMAIN users, pt \in PointTypes :
      LET h == HistoryOf(u, pt) IN
        /\ \A i \in 1..Len(h) :
              h[i].previousBalance =
                IF i = 1 THEN CreatedWith(pt) ELSE h[i - 1].newBalance
        /\ h # <<>> => h[Len(h)].newBalance = PointsOf(users[u], pt)

----------------------------------------------------------------------------
(* Relay properties *)

Terminal(status) == status \in {"confirmed", "failed"}

\* the wallet a row of buy_tokens_transactions belongs to
BuyRowWallet(row) == users[row.userId].walletAddress

\* both slots hold answered, successful requests of one kind for one address,
\* and no other request was made
ConcurrentPrepares(op) ==
  /\ nOps = 2
  /\ \A r \in Slots : req[r].pc = "done" /\ req[r].op = op /\ req[r].res = "ok"
  /\ req[1].addr = req[2].addr

\* C3: two concurrent BuyTokensService.prepareSignature calls for one address
\* never persist two rows with the same nonce.
C3_ConcurrentPreparesDistinctNonces ==
  ConcurrentPrepares("buyPrepare") =>
    \A i, j \in 1..Len(buyTxs) :
      (i # j /\ buyTxs[i].userId = buyTxs[j].userId)
        => buyTxs[i].nonceUsed # buyTxs[j].nonceUsed

\* C4: with one request at a time, through any entry point, no two rows of
\* the buy relay carry the same nonce for the same address, and no two rows
\* of the sell relay do.
C4_NoNonceSignedTwice ==
  /\ \A i, j \in 1..Len(buyTxs) :
       (i # j /\ BuyRowWallet(buyTxs[i]) = BuyRowWallet(buyTxs[j]))
         => buyTxs[i].nonceUsed # buyTxs[j].nonceUsed
  /\ \A i, j \in 1..Len(sellTxs) :
       (i # j /\ sellTxs[i].userAddress = sellTxs[j].userAddress)
         => sellTxs[i].nonce # sellTxs[j].nonce

\* the nonces recorded locally for the address of a prepare request, its own
\* row (the last one, once it has answered "ok") left out
EarlierLocalNonces(f) ==
  IF f.op = "sellPrepare"
  THEN {sellTxs[i].nonce : i \in
          {k \in 1..(Len(sellTxs) - (IF f.res = "ok" THEN 1 ELSE 0)) :
             sellTxs[k].userAddress = f.addr}}
  ELSE {buyTxs[i].nonceUsed : i \in
          {k \in 1..(Len(buyTxs) - (IF f.res = "ok" THEN 1 ELSE 0)) :
             buyTxs[k].userId = f.uid}}

\* C9: a prepare request whose chain nonce read failed still answers
\* successfully, and its nonce is 1 + the highest nonce recorded locally for
\* the address before it (1 if none).
C9_DegradedModeSucceeds ==
  \A r \in Slots :
    (/\ req[r].pc = "done"
     /\ req[r].op \in {"buyPrepare", "sellPrepare"}
     /\ req[r].chainNonce = 0
     /\ env.TX_SIGNER_PRIVATE_KEY)
    => /\ req[r].res = "ok"
       /\ \A n \in EarlierLocalNonces(req[r]) : req[r].nonce > n
       /\ req[r].nonce = 1 \/ (req[r].nonce - 1) \in EarlierLocalNonces(req[r])

\* the caller of a confirm request owns the row
OwnsBuyRow(caller, row) == row.userId = caller
OwnsSellRow(caller, row) ==
  ToLowerCase(row.userAddress) = ToLowerCase(users[caller].walletAddress)

\* a step in which a confirm request of the owner answers for a row that was
\* already confirmed or failed
SecondConfirm(r, op, rows, Owns(_, _)) ==
  /\ req'[r].op = op /\ req'[r].pc = "done" /\ req[r] # req'[r]
  /\ RowIndex(rows, req'[r].pid) # 0
  /\ Terminal(rows[RowIndex(rows, req'[r].pid)].status)
  /\ Owns(req'[r].caller, rows[RowIndex(rows, req'[r].pid)])

\* C10: a confirm call of the owner for a transaction that is already
\* confirmed or failed is refused and leaves its status, txHash and
\* timestamps as they were, in the buy relay and in the sell relay.
C10_SecondConfirmRefused ==
  [][\A r \in Slots :
       /\ SecondConfirm(r, "buyConfirm", buyTxs, OwnsBuyRow)
            => req'[r].res # "ok" /\ buyTxs' = buyTxs
       /\ SecondConfirm(r, "sellConfirm", sellTxs, OwnsSellRow)
            => req'[r].res # "ok" /\ sellTxs' = sellTxs]_vars

\* C11: once a transaction of the buy or sell relay is confirmed or failed,
\* no step changes its status, txHash or timestamps.
C11_TerminalRowsFrozen ==
  [][/\ \A i \in 1..Len(buyTxs) :
          Terminal(buyTxs[i].status) => buyTxs'[i] = buyTxs[i]
     /\ \A i \in 1..Len(sellTxs) :
          Terminal(sellTxs[i].status) => sellTxs'[i] = sellTxs[i]]_vars

\* a step of a confirm request whose caller does not own the row it names
NonOwnerConfirmStep(r, op, rows, Owns(_, _)) ==
  /\ req'[r] # req[r]
  /\ req'[r].op = op
  /\ RowIndex(rows, req'[r].pid) # 0
  /\ ~Owns(req'[r].caller, rows[RowIndex(rows, req'[r].pid)])

\* C12: a confirm request whose caller is not the owner of the transaction is
\* refused and changes no row, in the buy relay and in the sell relay.
C12_NonOwnerConfirmChangesNothing ==
  [][\A r \in Slots :
       /\ NonOwnerConfirmStep(r, "buyConfirm", buyTxs, OwnsBuyRow)
            => /\ buyTxs' = buyTxs
               /\ req'[r].pc = "done" /\ req'[r].res # "ok"
       /\ NonOwnerConfirmStep(r, "sellConfirm", sellTxs, OwnsSellRow)
            => /\ sellTxs' = sellTxs
               /\ req'[r].pc = "done" /\ req'[r].res # "ok"]_vars

\* C12 witness: a sell confirm by a user who does not own the pending
\* transaction has been refused, and the row is still pending
C12_Witness ==
  \E r \in Slots :
    /\ req[r].op = "sellConfirm" /\ req[r].pc = "done"
    /\ req[r].res = "Access denied"
    /\ RowIndex(sellTxs, req[r].pid) # 0
    /\ ~OwnsSellRow(req[r].caller, sellTxs[RowIndex(sellTxs, req[r].pid)])
    /\ sellTxs[RowIndex(sellTxs, req[r].pid)].status = "pending"

\* C13: the id a successful BuyTokensService.prepareSignature returns is the
\* id of the pending row it stored for that user and nonce.
C13_ReturnedIdIsStoredId ==
  \A r \in Slots :
    (req[r].op = "buyPrepare" /\ req[r].pc = "done" /\ req[r].res = "ok")
    => \E i \in 1..Len(buyTxs) :
         /\ buyTxs[i].id = req[r].ret
         /\ buyTxs[i].userId = req[r].uid
         /\ buyTxs[i].nonceUsed = req[r].nonce
         /\ buyTxs[i].status = "pending"

----------------------------------------------------------------------------
(* Admin adjustment properties *)

\* the step in which an adjust-points request commits
AdjustCommits(r) ==
  /\ req[r].op = "adjustPoints" /\ req[r].pc = "tx"
  /\ req'[r].pc = "done" /\ req'[r].res = "ok"

\* C14: an admin adjustment of d on a balance b commits max(0, b + d) and
\* appends a history row with previousBalance b, the committed balance as
\* newBalance, and their difference as change (0 - b when b + d < 0).
C14_AdjustClampsAtZero ==
  [][\A r \in Slots :
       AdjustCommits(r) =>
         LET u == req[r].uid
             pt == req[r].cur
             b == PointsOf(users[u], pt)
             d == req[r].amt
             n == IF b + d < 0 THEN 0 ELSE b + d
         IN  /\ PointsOf(users'[u], pt) = n
             /\ Len(pointHistory') = Len(pointHistory) + 1
             /\ pointHistory'[Len(pointHistory')] = HistoryRow(u, pt, n - b, b, n)
             /\ (b + d < 0) => pointHistory'[Len(pointHistory')].change = 0 - b]_vars

\* C14 witness: an adjustment more negative than the balance has committed:
\* the balance is 0 and the history row records a smaller change than asked
C14_Witness ==
  \E r \in Slots :
    /\ req[r].op = "adjustPoints" /\ req[r].pc = "done" /\ req[r].res = "ok"
    /\ req[r].amt < 0 /\ req[r].ch # req[r].amt /\ req[r].ch < 0
    /\ PointsOf(users[req[r].uid], req[r].cur) = 0
    /\ pointHistory # <<>>
    /\ pointHistory[Len(pointHistory)].newBalance = 0
    /\ pointHistory[Len(pointHistory)].change = req[r].ch

----------------------------------------------------------------------------
(* Nonce choice of BuyTokensService.prepareSignature *)

\* the nonces of the rows stored for a user
LocalNonces(u) ==
  {buyTxs[i].nonceUsed : i \in {k \in 1..Len(buyTxs) : buyTxs[k].userId = u}}

\* 1 + the highest nonce stored for the user, or 1 if none
LocalNextNonce(u) ==
  IF LocalNonces(u) = {} THEN 1
  ELSE 1 + CHOOSE m \in LocalNonces(u) : \A x \in LocalNonces(u) : x <= m

\* 1 + the highest nonce the contract has consumed for the address
OnChainNextNonce(a) == 1 + usedNonces["FDFPair"][a.body]

BuyPrepareStep(r, from, to) ==
  /\ req[r].op = "buyPrepare" /\ req[r].pc = from
  /\ req'[r].op = "buyPrepare" /\ req'[r].pc = to

\* C15: in BuyTokensService.prepareSignature a successful chain read yields
\* onChainNextNonce, and the nonce chosen is then the larger of localNextNonce
\* and that answer; after a failed chain read the nonce chosen is
\* localNextNonce.
C15_NonceIsMaxOfLocalAndChain ==
  [][\A r \in Slots :
       /\ BuyPrepareStep(r, "chain", "query")
            => req'[r].chainNonce = OnChainNextNonce(req[r].addr)
       /\ BuyPrepareStep(r, "query", "sign")
            => req'[r].nonce =
                 (IF LocalNextNonce(req[r].uid) >= req[r].chainNonce
                  THEN LocalNextNonce(req[r].uid) ELSE req[r].chainNonce)
       /\ BuyPrepareStep(r, "fallback", "sign")
            => req'[r].nonce = LocalNextNonce(req[r].uid)]_vars

\* C15 witness: a prepare request has stored a row whose nonce is the chain
\* answer, which was larger than localNextNonce
C15_Witness ==
  \E r \in Slots :
    /\ req[r].op = "buyPrepare" /\ req[r].pc = "done" /\ req[r].res = "ok"
    /\ req[r].chainNonce > 1
    /\ req[r].nonce = req[r].chainNonce
    /\ buyTxs # <<>>
    /\ buyTxs[Len(buyTxs)].userId = req[r].uid
    /\ buyTxs[Len(buyTxs)].nonceUsed = req[r].nonce
    /\ \A i \in 1..(Len(buyTxs) - 1) :
         buyTxs[i].userId = req[r].uid => buyTxs[i].nonceUsed + 1 < req[r].nonce

\* C16: when the chain read answers n, a prepare request for a user with no
\* stored rows stores nonce n, and a prepare request for a user whose only
\* stored nonce is n (the chain answer is stale) stores n + 1.
C16_StaleChainAnswer ==
  [][\A r \in Slots :
       (BuyPrepareStep(r, "insert", "done") /\ req[r].chainNonce # 0)
       => /\ Len(buyTxs') = Len(buyTxs) + 1
          /\ buyTxs'[Len(buyTxs')].userId = req[r].uid
          /\ LocalNonces(req[r].uid) = {}
               => buyTxs'[Len(buyTxs')].nonceUsed = req[r].chainNonce
          /\ LocalNonces(req[r].uid) = {req[r].chainNonce}
               => buyTxs'[Len(buyTxs')].nonceUsed = req[r].chainNonce + 1]_vars

\* C16 witness: the contract has consumed 6 nonces and still reports 7; the
\* user's two rows carry nonces 7 and 8, the second just stored
C16_Witness ==
  \E r \in Slots :
    /\ req[r].op = "buyPrepare" /\ req[r].pc = "done" /\ req[r].res = "ok"
    /\ req[r].chainNonce = 7 /\ req[r].nonce = 8
    /\ OnChainNextNonce(req[r].addr) = 7
    /\ LocalNonces(req[r].uid) = {7, 8}
    /\ Len(buyTxs) = 2
    /\ buyTxs[1].nonceUsed = 7 /\ buyTxs[2].nonceUsed = 8

----------------------------------------------------------------------------
(* Properties of earn and spend (PointsService.updatePoints) *)

\* a request arrives in slot r
Starts(r) == Free(r) /\ req'[r] # req[r]

\* the request in slot r answers
Answers(r) == req'[r] # req[r] /\ req'[r].pc = "done"

\* the frame is an updatePoints call of user 1 on TOURNAMENT points
IsUpdate(f, tt, a) ==
  /\ f.op = "updatePoints" /\ f.uid = 1 /\ f.cur = "TOURNAMENT"
  /\ f.typ = tt /\ f.amt = a

\* user 1 as created: 100 tournament points and no history
ScenarioStart ==
  /\ users[1].tournamentPoints = 100
  /\ transactions = <<>> /\ pointHistory = <<>>

\* user 1 after spend(100) alone
ScenarioSpent ==
  /\ users[1].tournamentPoints = 0
  /\ transactions = <<TransactionRow(1, "SPENT", 100, "TOURNAMENT")>>
  /\ pointHistory = <<HistoryRow(1, "TOURNAMENT", 0 - 100, 100, 0)>>

\* C17: from 100 tournament points, spend(100) succeeds and leaves 0; then
\* spend(1) fails with 'Insufficient points' and changes nothing; then
\* earn(50) leaves 50 and appends the history row (0, 50, +50).
C17_SequentialScenario ==
  [][\A r \in Slots :
       /\ (ScenarioStart /\ Starts(r) /\ IsUpdate(req'[r], "SPENT", 100))
            => req'[r].pc = "tx"
       /\ (ScenarioStart /\ Answers(r) /\ IsUpdate(req[r], "SPENT", 100))
            => req'[r].res = "ok" /\ ScenarioSpent'
       /\ (ScenarioSpent /\ Starts(r) /\ IsUpdate(req'[r], "SPENT", 1))
            => /\ req'[r].pc = "done"
               /\ req'[r].res = "Insufficient points"
               /\ UNCHANGED ledgerTables
       /\ (ScenarioSpent /\ Starts(r) /\ IsUpdate(req'[r], "EARNED", 50))
            => req'[r].pc = "tx"
       /\ (ScenarioSpent /\ Answers(r) /\ IsUpdate(req[r], "EARNED", 50))
            => /\ req'[r].res = "ok"
               /\ users'[1].tournamentPoints = 50
               /\ pointHistory' =
                    Append(pointHistory, HistoryRow(1, "TOURNAMENT", 50, 0, 50))]_vars

\* C17 witness: three calls were made, spend(100) and earn(50) left their
\* rows and the call between them left none; the balance is 50
C17_Witness ==
  /\ nOps = 3
  /\ \E r \in Slots : IsUpdate(req[r], "EARNED", 50) /\ req[r].pc = "done"
                      /\ req[r].res = "ok"
  /\ users[1].tournamentPoints = 50
  /\ transactions = <<TransactionRow(1, "SPENT", 100, "TOURNAMENT"),
                      TransactionRow(1, "EARNED", 50, "TOURNAMENT")>>
  /\ pointHistory = <<HistoryRow(1, "TOURNAMENT", 0 - 100, 100, 0),
                      HistoryRow(1, "TOURNAMENT", 50, 0, 50)>>

\* C18: a spend of more than the balance answers 'Insufficient points' and
\* leaves the balance, the transactions and the history as they were; a
\* spend of at most the balance takes exactly the amount off the balance
\* and appends one SPENT transaction.
C18_SpendChecksBalance ==
  [][\A r \in Slots :
       /\ (Starts(r) /\ req'[r].op = "updatePoints" /\ req'[r].typ = "SPENT"
             /\ req'[r].uid \in DOMAIN users)
            => /\ UNCHANGED ledgerTables
               /\ IF req'[r].amt > PointsOf(users[req'[r].uid], req'[r].cur)
                  THEN req'[r].pc = "done" /\ req'[r].res = "Insufficient points"
                  ELSE req'[r].pc = "tx"
       /\ (Answers(r) /\ req[r].op = "updatePoints" /\ req[r].pc = "tx"
             /\ req[r].typ = "SPENT")
            => /\ req'[r].res = "ok"
               /\ PointsOf(users'[req[r].uid], req[r].cur)
                    = PointsOf(users[req[r].uid], req[r].cur) - req[r].amt
               /\ transactions' =
                    Append(transactions,
                           TransactionRow(req[r].uid, "SPENT", req[r].amt,
                                          req[r].cur))
               /\ Len(pointHistory') = Len(pointHistory) + 1]_vars

\* C18 witness: a spend of the whole balance has been made, and after it a
\* spend was refused with nothing changed
C18_Witness ==
  \E r \in Slots :
    /\ req[r].op = "updatePoints" /\ req[r].typ = "SPENT"
    /\ req[r].pc = "done" /\ req[r].res = "Insufficient points"
    /\ req[r].uid \in DOMAIN users
    /\ PointsOf(users[req[r].uid], req[r].cur) = 0
    /\ Len(transactions) = 1 /\ transactions[1].type = "SPENT"
    /\ Len(pointHistory) = 1

\* C19: updatePoints (earn or spend) and the admin adjustment, called for a
\* user id that names no account, answer 'User not found' at once: no
\* account is created and no balance, transaction or history row is written.
C19_UnknownAccount ==
  [][\A r \in Slots :
       (/\ Starts(r)
        /\ req'[r].op \in {"updatePoints", "adjustPoints"}
        /\ req'[r].uid \notin DOMAIN users
        /\ req'[r].op = "adjustPoints" => IsAdmin(req'[r].caller))
       => /\ req'[r].pc = "done"
          /\ req'[r].res = "User not found"
          /\ UNCHANGED ledgerTables]_vars

\* C19 witness: an admin adjustment for an unknown user id has been refused
C19_Witness ==
  \E r \in Slots :
    /\ req[r].op = "adjustPoints" /\ req[r].pc = "done"
    /\ req[r].res = "User not found"
    /\ req[r].uid \notin DOMAIN users
    /\ IsAdmin(req[r].caller)
    /\ transactions = <<>> /\ pointHistory = <<>>

\* the same for updatePoints
UnknownAccountUpdateSeen ==
  \E r \in Slots :
    /\ req[r].op = "updatePoints" /\ req[r].pc = "done"
    /\ req[r].res = "User not found"
    /\ req[r].uid \notin DOMAIN users

----------------------------------------------------------------------------
(* Termination of BuyTokensService.prepareSignature *)

\* C20: every prepareSignature request eventually answers, with a signature
\* or an error, also when the chain nonce read never answers.
C20_PrepareCompletes ==
  \A r \in Slots :
    (req[r].op = "buyPrepare" /\ req[r].pc # "done") ~> (req[r].pc = "done")

----------------------------------------------------------------------------
(* Startup and the signing key *)

\* C21: no prepare request is answered with the error of a missing signer:
\* a process whose signing key or provider is not configured never serves
\* relay requests.
C21_NoRequestFailsForMissingSigner ==
  \A r \in Slots :
    (req[r].op \in {"buyPrepare", "sellPrepare"} /\ req[r].pc = "done")
    => req[r].res # "TxSigner not configured"

----------------------------------------------------------------------------
(* Accounts and the letter case of wallet addresses *)

\* the three paths that look up or create an account by a wallet address
\* taken from the request: login, BuyTokensService.prepareSignature and the
\* target of an award, one request at a time
NextAccounts ==
  \/ \E a \in Addresses : Login(a)
  \/ \E a \in Addresses : BuyPrepareFindUser({1}, 1, a)
  \/ BuyPrepareCreateUser(1)
  \/ BuyPrepareChainNonce(1)
  \/ BuyPrepareChainFailed(1)
  \/ BuyPrepareQuery(1)
  \/ BuyPrepareFallback(1)
  \/ BuyPrepareSign(1)
  \/ BuyPrepareInsert(1)
  \/ \E c \in UserIds, t \in Addresses, p \in PointTypeParams,
        a \in AwardAmounts : AwardRead({1}, 1, c, t, p, a)
  \/ AwardCommit(1)

SpecAccounts == InitLedger /\ [][NextAccounts]_vars

\* the accounts whose wallet address is the given one up to letter case
AccountsOf(a) ==
  {u \in DOMAIN users : ToLowerCase(users[u].walletAddress) = ToLowerCase(a)}

\* C22: at most one account exists per wallet address up to letter case, and
\* a request that names an address in any letter case is resolved to that
\* account: prepareSignature works on it and an award finds it.
C22_OneAccountPerWallet ==
  /\ \A u, v \in DOMAIN users :
       ToLowerCase(users[u].walletAddress) = ToLowerCase(users[v].walletAddress)
         => u = v
  /\ \A r \in Slots :
       /\ (req[r].op = "buyPrepare" /\ req[r].uid # 0)
            => AccountsOf(req[r].addr) = {req[r].uid}
       /\ (req[r].op = "award" /\ req[r].pc = "done")
            => IF AccountsOf(req[r].addr) = {}
               THEN req[r].res = "Target user not found"
               ELSE req[r].res = "ok" /\ AccountsOf(req[r].addr) = {req[r].uid}

----------------------------------------------------------------------------
(* Immutability of the ledger *)

IsPrefix(s, t) == Len(s) <= Len(t) /\ \A i \in 1..Len(s) : s[i] = t[i]

\* C23: no step modifies or deletes a row of transactions or point_history:
\* each table, and the rows of every account and currency in it, is a prefix
\* of what it is after the step.
C23_LedgerAppendOnly ==
  [][/\ IsPrefix(transactions, transactions')
     /\ IsPrefix(pointHistory, pointHistory')
     /\ \A u \in DOMAIN users, pt \in PointTypes :
          /\ IsPrefix(TransactionsOf(u, pt), TransactionsOf(u, pt)')
          /\ IsPrefix(HistoryOf(u, pt), HistoryOf(u, pt)')]_vars

\* C23 witness: two requests have each written their rows for one account and
\* currency, the second after the first
C23_Witness ==
  /\ Quiescent
  /\ nOps = 2
  /\ \E u \in DOMAIN users, pt \in PointTypes :
       /\ Len(TransactionsOf(u, pt)) = 2
       /\ Len(HistoryOf(u, pt)) = 2

----------------------------------------------------------------------------
(* Arithmetic of the history rows *)

\* C24: every point_history row, whichever operation wrote it, has
\* newBalance = previousBalance + change.
C24_HistoryRowsAddUp ==
  \A i \in 1..Len(pointHistory) :
    pointHistory[i].newBalance =
      pointHistory[i].previousBalance + pointHistory[i].change

\* C24 witness: the history holds a row of a deduction and a row of an
\* addition, written by two requests
C24_Witness ==
  /\ Len(pointHistory) = 2
  /\ \E i, j \in 1..2 :
       /\ pointHistory[i].change < 0
       /\ pointHistory[j].change > 0
       /\ pointHistory[i].previousBalance > pointHistory[i].newBalance
       /\ pointHistory[j].previousBalance < pointHistory[j].newBalance

----------------------------------------------------------------------------
(* Reporting a failed transaction *)

ReportedStatuses == {"confirmed", "failed"}

\* the two confirm routes, one request at a time, each called with the
\* outcome the caller reports; rows come from the two prepare routes
NextConfirm ==
  \/ \E c \in UserIds : BuyRouteChainNonce({1}, 1, c)
  \/ \E c \in UserIds : BuyRouteChainFailed({1}, 1, c)
  \/ BuyRouteSign(1)
  \/ BuyRouteCreate(1)
  \/ \E c \in UserIds : SellPrepareChainNonce({1}, 1, c)
  \/ \E c \in UserIds : SellPrepareChainFailed({1}, 1, c)
  \/ SellPrepareSign(1)
  \/ SellPrepareCreate(1)
  \/ \E c \in UserIds, id \in ConfirmIds(buyTxs), h \in TxHashes,
        st \in ReportedStatuses : BuyConfirmRequest({1}, 1, c, id, h, st)
  \/ BuyConfirmUpdate(1)
  \/ \E c \in UserIds, id \in ConfirmIds(sellTxs), h \in TxHashes,
        st \in ReportedStatuses : SellConfirmGet({1}, 1, c, id, h, st)
  \/ SellConfirmUpdate(1)

SpecConfirm == InitRelay /\ [][NextConfirm]_vars

\* a step in which a confirm request of the owner that reports a failure
\* answers for a pending row
FailureReported(r, op, rows, Owns(_, _)) ==
  /\ req[r].op = op /\ req'[r].op = op
  /\ req'[r] # req[r] /\ req'[r].pc = "done"
  /\ req'[r].typ = "failed"
  /\ RowIndex(rows, req'[r].pid) # 0
  /\ rows[RowIndex(rows, req'[r].pid)].status = "pending"
  /\ Owns(req'[r].caller, rows[RowIndex(rows, req'[r].pid)])

\* C25: the owner's confirm call that reports a failure for a pending
\* transaction succeeds and leaves the transaction failed, in the buy relay
\* and in the sell relay.
C25_FailureReportMarksFailed ==
  [][\A r \in Slots :
       /\ FailureReported(r, "buyConfirm", buyTxs, OwnsBuyRow)
            => /\ req'[r].res = "ok"
               /\ buyTxs'[RowIndex(buyTxs, req'[r].pid)].status = "failed"
       /\ FailureReported(r, "sellConfirm", sellTxs, OwnsSellRow)
            => /\ req'[r].res = "ok"
               /\ sellTxs'[RowIndex(sellTxs, req'[r].pid)].status = "failed"]_vars

\* the sell relay alone does what the claim says
SellFailureReportMarksFailed ==
  [][\A r \in Slots :
       FailureReported(r, "sellConfirm", sellTxs, OwnsSellRow)
         => /\ req'[r].res = "ok"
            /\ sellTxs'[RowIndex(sellTxs, req'[r].pid)].status = "failed"]_vars

\* no row of the buy relay is ever failed
BuyRowsNeverFailed ==
  \A i \in 1..Len(buyTxs) : buyTxs[i].status # "failed"

----------------------------------------------------------------------------
(* Admin-only operations *)

\* C26: a request to award points or to adjust points made by a caller who is
\* not the admin wallet is rejected and changes no balance, transaction or
\* history row, neither when it arrives nor later.
C26_AdminOnly ==
  [][\A r \in Slots :
       (/\ req'[r] # req[r]
        /\ req'[r].op \in {"award", "adjustPoints"}
        /\ ~IsAdmin(req'[r].caller))
       => /\ req'[r].pc = "done"
          /\ req'[r].res # "ok"
          /\ UNCHANGED ledgerTables]_vars

\* the adjust-points route alone does what the claim says
AdjustPointsAdminOnly ==
  [][\A r \in Slots :
       (/\ req'[r] # req[r]
        /\ req'[r].op = "adjustPoints"
        /\ ~IsAdmin(req'[r].caller))
       => /\ req'[r].pc = "done"
          /\ req'[r].res = "Admin access required"
          /\ UNCHANGED ledgerTables]_vars

----------------------------------------------------------------------------
(* The price of a pack *)

\* README, "Pack Types and Costs"
DocumentedPrice(packType) ==
  CASE packType = "PRO" -> 100
    [] packType = "EPIC" -> 250
    [] packType = "LEGENDARY" -> 500

\* C27: a purchase request of a buyer who holds fewer tournament points than
\* the documented price of the pack is rejected with no balance change, and
\* a purchase that succeeds takes the documented price off the buyer's
\* tournament points.
C27_PackPaidAtDocumentedPrice ==
  [][\A r \in Slots :
       /\ (/\ Starts(r)
           /\ req'[r].op = "purchase"
           /\ users[req'[r].caller].tournamentPoints
                < DocumentedPrice(req'[r].typ))
          => /\ req'[r].pc = "done"
             /\ req'[r].res = "Insufficient tournament points"
             /\ UNCHANGED ledgerTables
       /\ (/\ req[r].op = "purchase"
           /\ At(r, "purchase", "update")
           /\ req'[r].pc = "find")
          => users'[req[r].caller].tournamentPoints =
               users[req[r].caller].tournamentPoints
                 - DocumentedPrice(req[r].typ)]_vars

----------------------------------------------------------------------------
(* POST /api/auth/nonce *)

\* req.body.walletAddress: "0x" and 40 hex digits whose letters are all lower
\* case, all upper case, capitalised as the EIP-55 checksum of the address
\* ("mixed"), or capitalised otherwise ("miscased"); or any other string
NonceAddresses ==
  [body : Bodies, form : {"lower", "upper", "mixed", "miscased"}]
    \cup {[body |-> 0, form |-> "malformed"]}

\* Math.random().toString(36).substring(2)
Randoms == {1, 2, 3}

\* MonadBlockchain.isValidWalletAddress -> ethers.isAddress: 40 hex digits,
\* and where they mix upper and lower case letters the capitals must be
\* those of the checksum
IsValidWalletAddress(a) == a.form \in {"lower", "upper", "mixed"}

\* the handler: validation, then the nonce from the clock and Math.random
AuthNonce(r, a, rnd) ==
  /\ CanStart({1}, r)
  /\ nOps < MaxNonceRequests
  /\ \E t \in {now, now + 1} :
       /\ now' = t
       /\ LET f == [Idle EXCEPT !.op = "authNonce", !.addr = a] IN
            IF ~IsValidWalletAddress(a)
            THEN Start(r, Done(f, "Invalid input"))
            ELSE Start(r, [Done(f, "ok") EXCEPT !.nonce = t, !.ret = rnd])
  /\ UNCHANGED <<env, buyTxs, sellTxs, usedNonces, idSeq>>
  /\ UNCHANGED ledgerTables

NextAuth == \E a \in NonceAddresses, rnd \in Randoms : AuthNonce(1, a, rnd)

SpecAuth == InitLedger /\ [][NextAuth]_vars

\* "0x" followed by 40 hex digits, in any letter case
WellFormedAddress(a) == a.form \in {"lower", "upper", "mixed", "miscased"}

\* C28: a nonce request is answered with a nonce exactly when its
\* walletAddress is a wallet address (0x and 40 hex digits); every other
\* request is answered 'Invalid input' and gets no nonce.
C28_NonceIffValidAddress ==
  \A r \in Slots :
    (req[r].op = "authNonce" /\ req[r].pc = "done")
    => /\ req[r].res = "ok" <=> WellFormedAddress(req[r].addr)
       /\ req[r].res # "ok" => (req[r].res = "Invalid input" /\ req[r].ret = 0)

\* the same with the validity the code tests: ethers.isAddress
NonceIffIsAddress ==
  \A r \in Slots :
    (req[r].op = "authNonce" /\ req[r].pc = "done")
    => /\ req[r].res = "ok" <=> IsValidWalletAddress(req[r].addr)
       /\ req[r].res # "ok" => (req[r].res = "Invalid input" /\ req[r].ret = 0)

----------------------------------------------------------------------------
(* Failed signature preparations *)

\* the step in which a prepare request fails at signing or at its insert
PrepareFails(r) ==
  /\ req[r].op \in {"buyPrepare", "sellPrepare"}
  /\ req[r].pc \in {"sign", "insert"}
  /\ req'[r].pc = "done"
  /\ req'[r].res # "ok"

\* the nonces of the rows stored for an address by the sell relay
SellLocalNonces(a) ==
  {sellTxs[i].nonce : i \in {k \in 1..Len(sellTxs) : sellTxs[k].userAddress = a}}

\* C29: a prepare request that fails at signing or at its insert stores no
\* row, so the nonces recorded for the address are what they were, and the
\* nonce the failed request had chosen is the one a request for the same
\* address chooses from the unchanged records and the same chain answer.
C29_FailedPrepareLeavesNoTrace ==
  [][\A r \in Slots :
       PrepareFails(r) =>
         /\ buyTxs' = buyTxs
         /\ sellTxs' = sellTxs
         /\ req[r].op = "buyPrepare" =>
              /\ LocalNextNonce(req[r].uid)' = LocalNextNonce(req[r].uid)
              /\ req[r].nonce =
                   IF req[r].chainNonce = 0 THEN LocalNextNonce(req[r].uid)'
                   ELSE Max(req[r].chainNonce, LocalNextNonce(req[r].uid)')
         /\ req[r].op = "sellPrepare" =>
              /\ SellLocalNonces(req[r].addr)' = SellLocalNonces(req[r].addr)
              /\ req[r].nonce = req[r].chainNonce]_vars

\* C29 witness: after a request that stored nonce 1 for the user, a request
\* chose nonce 2, signed it and failed at its insert: the user's records are
\* still the one row, and localNextNonce is still 2
C29_Witness ==
  \E r \in Slots :
    /\ req[r].op = "buyPrepare" /\ req[r].pc = "done"
    /\ req[r].res = "storage failure"
    /\ req[r].nonce = 2
    /\ Len(buyTxs) = 1
    /\ buyTxs[1].userId = req[r].uid
    /\ buyTxs[1].nonceUsed = 1
    /\ LocalNextNonce(req[r].uid) = 2

\* a sell prepare request has failed at its insert and left no row
SellInsertFailureSeen ==
  \E r \in Slots :
    /\ req[r].op = "sellPrepare"
    /\ req[r].pc = "done" /\ req[r].res = "storage failure"
    /\ req[r].nonce = 1
    /\ sellTxs = <<>>

----------------------------------------------------------------------------
(* The nonce of a stored row, of its signed message and of the response *)

\* a step that stores a row and answers the request that stored it: the row
\* is pending, and its nonce is the nonce of the message that was signed and
\* the nonce in the response
StoresAgreeingRow(rows, nonceOf(_), r) ==
  LET row == rows'[Len(rows')] IN
    /\ row.status = "pending"
    /\ nonceOf(row) = row.signature.nonce
    /\ req'[r].pc = "done" /\ req'[r].res = "ok"
    /\ req'[r].retNonce = nonceOf(row)

BuyNonceOf(row) == row.nonceUsed
SellNonceOf(row) == row.nonce

\* C30: every row stored by a relay entry point is created pending, and the
\* nonce stored in it is the nonce of the signed message and the nonce
\* returned to the caller of the request.
C30_StoredSignedReturnedNonceAgree ==
  [][\A r \in Slots :
       /\ (Len(buyTxs') = Len(buyTxs) + 1 /\ req'[r] # req[r])
            => StoresAgreeingRow(buyTxs, BuyNonceOf, r)
       /\ (Len(sellTxs') = Len(sellTxs) + 1 /\ req'[r] # req[r])
            => StoresAgreeingRow(sellTxs, SellNonceOf, r)]_vars

\* the two entry points of the buy relay do what the claim says
BuyStoredSignedReturnedNonceAgree ==
  [][\A r \in Slots :
       (Len(buyTxs') = Len(buyTxs) + 1 /\ req'[r] # req[r])
         => StoresAgreeingRow(buyTxs, BuyNonceOf, r)]_vars

\* a row of the sell relay is pending and carries the nonce that was signed
SellStoredNonceIsSigned ==
  \A i \in 1..Len(sellTxs) :
    /\ sellTxs[i].nonce = sellTxs[i].signature.nonce
    /\ sellTxs[i].createdAt = sellTxs[i].updatedAt => sellTxs[i].status = "pending"

----------------------------------------------------------------------------
(* C31: purchasePack, cutPlayers and promotePlayers touch the ledger only   *)
(* after the contract call was sent and confirmed, and a contract call that *)
(* throws or reverts ends the request with a failure and nothing written.   *)

ChainOps == {"promote", "cut", "purchase"}

\* the request in slot r is past a confirmed contract call
AfterConfirmation(r) == req[r].pc \in {"update", "find", "record", "history"}

\* C31: every step of one of the three operations that changes a balance, a
\* TransactionRecord or a PointHistoryRecord is taken after the contract call
\* confirmed; the bookkeeping is entered only from the awaited contract call;
\* and a request that ends at the contract call reports "chain call failed"
\* and leaves balances, TransactionRecords and PointHistoryRecords as they were.
C31_LedgerWrittenOnlyAfterConfirmation ==
  [][\A r \in Slots :
       (req'[r] # req[r] /\ (req[r].op \in ChainOps \/ req'[r].op \in ChainOps)) =>
         /\ <<users, transactions, pointHistory>>' # <<users, transactions, pointHistory>>
              => req[r].op \in ChainOps /\ AfterConfirmation(r)
         /\ (req'[r].pc = "update" /\ req[r].pc # "update") => req[r].pc = "chain"
         /\ (req[r].pc = "chain" /\ req[r].op \in ChainOps /\ req'[r].pc = "done") =>
              /\ req'[r].res = "chain call failed"
              /\ UNCHANGED <<users, transactions, pointHistory>>
         /\ req'[r].res = "chain call failed" =>
              req[r].pc = "chain" /\ UNCHANGED <<users, transactions, pointHistory>>]_vars

\* one cut went through and was recorded, and a later request of the same
\* account failed at the contract call, with the ledger one row long
C31_Witness ==
  \E r \in Slots :
    /\ req[r].op \in ChainOps
    /\ req[r].pc = "done"
    /\ req[r].res = "chain call failed"
    /\ Len(transactions) = 1
    /\ transactions[1].type = "PLAYER_CUT"
    /\ Len(pointHistory) = 1

----------------------------------------------------------------------------
(* C32: a transition of a player from benched to active is charged once.    *)

\* the request in slot r answers "Player unbenched successfully" in this step
UnbenchSucceeds(r) ==
  /\ req[r].op = "unbench"
  /\ req[r].pc = "tx"
  /\ req'[r].pc = "done"
  /\ req'[r].res = "ok"

\* C32: every unbench request that succeeds, and with it every deduction of
\* UNBENCH_COST with its SPENT row and history row, takes a benched player to
\* active: of the requests for one benched player at most one succeeds.
C32_UnbenchChargedOncePerTransition ==
  [][\A r \in Slots :
       UnbenchSucceeds(r) =>
         players[req[r].pid].isBenched /\ ~players'[req[r].pid].isBenched]_vars

----------------------------------------------------------------------------
(* C33: BuyTokensService.getUserNonce against the nonce that the next       *)
(* prepareSignature for the same address chooses.                           *)

\* prisma.user.findUnique({ where: { walletAddress: address } }); without an
\* account the method answers { dbNonce: 0, nextNonce: 1 } at once
GetUserNonceFindUser(r, address) ==
  /\ RelayCanStart({r}, r)
  /\ LET f == [Idle EXCEPT !.op = "getUserNonce", !.addr = address]
         u == FindByWallet(address)
     IN  IF u = 0
         THEN Start(r, [Done(f, "ok") EXCEPT !.retNonce = 1])
         ELSE Start(r, [f EXCEPT !.pc = "query", !.uid = u])
  /\ UNCHANGED <<env, buyTxs, sellTxs, usedNonces, idSeq, now>>
  /\ UNCHANGED ledgerTables

\* dbNonce: the highest nonce_used stored for the account, or 0
GetUserNonceQuery(r) ==
  /\ At(r, "getUserNonce", "query")
  /\ req' = [req EXCEPT ![r].pc = "chain",
                        ![r].nonce = LastDbNonce(buyTxs, req[r].uid)]
  /\ UNCHANGED <<env, nOps>>
  /\ UNCHANGED ledgerTables
  /\ UNCHANGED relayTables

\* getOnChainNonce answers and nextNonce is Math.max(onChainNonce, dbNonce + 1),
\* or it throws and nextNonce is dbNonce + 1
GetUserNonceChain(r, answered) ==
  /\ At(r, "getUserNonce", "chain")
  /\ answered => ProviderConfigured
  /\ LET onChainNonce == OnChainNonce("FDFPair", req[r].addr)
         dbNonce == req[r].nonce
     IN  req' = [req EXCEPT ![r] =
                   IF answered
                   THEN [Done(@, "ok") EXCEPT
                           !.chainNonce = onChainNonce,
                           !.retNonce = Max(onChainNonce, dbNonce + 1)]
                   ELSE [Done(@, "ok") EXCEPT !.retNonce = dbNonce + 1]]
  /\ UNCHANGED <<env, nOps>>
  /\ UNCHANGED ledgerTables
  /\ UNCHANGED relayTables

\* buyers sign up and prepare purchases one request at a time, the contract
\* consumes signed messages, then getUserNonce is asked for an address, and
\* the request after it is a prepareSignature; the contract does not move
\* once the question was asked
NextNonceQuery ==
  \/ \E b \in Bodies : req[2].pc = "idle" /\ ChainConsume("FDFPair", b)
  \/ \E a \in Addresses : Free(2) /\ BuyPrepareFindUser({1}, 1, a)
  \/ BuyPrepareCreateUser(1)
  \/ BuyPrepareChainNonce(1)
  \/ BuyPrepareChainFailed(1)
  \/ BuyPrepareQuery(1)
  \/ BuyPrepareFallback(1)
  \/ BuyPrepareSign(1)
  \/ BuyPrepareInsert(1)
  \/ \E a \in Addresses :
       Free(1) /\ nOps = MaxRelayOps - 2 /\ GetUserNonceFindUser(2, a)
  \/ GetUserNonceQuery(2)
  \/ \E answered \in BOOLEAN : GetUserNonceChain(2, answered)

SpecNonceQuery == InitRelay /\ [][NextNonceQuery]_vars

\* getUserNonce has answered for an address, and the request that followed
\* it, a prepareSignature for the same address, has chosen its nonce
PrepareFollowsQuery ==
  /\ req[2].op = "getUserNonce"
  /\ req[2].pc = "done"
  /\ nOps = MaxRelayOps
  /\ req[1].op = "buyPrepare"
  /\ req[1].addr = req[2].addr
  /\ req[1].nonce # 0

\* C33: the nextNonce that getUserNonce reported for an address is the nonce
\* that the prepareSignature following it for the same address chooses,
\* whenever the chain gave both the same answer (the same value, or a
\* failure) or getUserNonce answered for an address without an account.
C33_ReportedNonceIsNextChosen ==
  (PrepareFollowsQuery
     /\ (req[2].uid = 0 \/ req[1].chainNonce = req[2].chainNonce))
    => req[1].nonce = req[2].retNonce

\* the same, for addresses that had an account when getUserNonce was asked
ReportedNonceIsNextChosenWithAccount ==
  (PrepareFollowsQuery /\ req[2].uid # 0
     /\ req[1].chainNonce = req[2].chainNonce)
    => req[1].nonce = req[2].retNonce

----------------------------------------------------------------------------
(* C34: what PointsService.updatePoints, the admin adjustment and the award *)
(* leave alone.                                                             *)

PointsOps == {"updatePoints", "adjustPoints", "award"}

OtherPointType(pt) == IF pt = "TOURNAMENT" THEN "SKILL" ELSE "TOURNAMENT"

\* the rows of a ledger table that belong to accounts other than a
RowsOfOthers(rows, a) == SelectSeq(rows, LAMBDA row : row.userId # a)

\* the request in slot r takes a step of one of the three operations
PointsOpStep(r) == req'[r] # req[r] /\ req'[r].op \in PointsOps

\* C34: a step of updatePoints, of the admin adjustment or of the award on
\* account A and currency C, whether the request succeeds or fails, keeps the
\* set of accounts, A's balance in the other currency, both balances of every
\* other account, and the TransactionRecords and PointHistoryRecords of every
\* other account.
C34_OnlyTargetBalanceAndRowsChange ==
  [][\A r \in Slots :
       PointsOpStep(r) =>
         LET A == req'[r].uid
             C == req'[r].cur
         IN  /\ DOMAIN users' = DOMAIN users
             /\ \A u \in DOMAIN users :
                  /\ u # A => users'[u] = users[u]
                  /\ u = A =>
                       PointsOf(users'[u], OtherPointType(C)) =
                         PointsOf(users[u], OtherPointType(C))
                  /\ users'[u].walletAddress = users[u].walletAddress
             /\ RowsOfOthers(transactions', A) = RowsOfOthers(transactions, A)
             /\ RowsOfOthers(pointHistory', A) = RowsOfOthers(pointHistory, A)
             /\ req'[r].res \notin {"none", "ok"} =>
                  UNCHANGED <<users, transactions, pointHistory>>]_vars

\* account 2 has a row in the ledger, and a later request on account 1 has
\* succeeded and added its own
C34_Witness ==
  \E r \in Slots :
    /\ req[r].op \in PointsOps
    /\ req[r].pc = "done"
    /\ req[r].res = "ok"
    /\ req[r].uid = 1
    /\ Len(transactions) = 2
    /\ transactions[1].userId = 2
    /\ transactions[2].userId = 1
    /\ Len(pointHistory) = 2

----------------------------------------------------------------------------
(* C35: status, txHash and confirmation time of the rows of both trackers.  *)

TrackerStatuses == {"pending", "confirmed", "failed"}

\* the txHash? argument: a hash, or left out
OptionalTxHashes == TxHashes \cup {"undefined"}

\* BuyTokensService.updateTransactionStatus: one UPDATE ... WHERE id; tx_hash
\* is txHash || null and confirmed_at is the time for 'confirmed', else null
BuyUpdateTransactionStatus(txId, status, txHash) ==
  /\ nOps < MaxRelayOps
  /\ LET i == RowIndex(buyTxs, txId) IN
       buyTxs' =
         IF i = 0 THEN buyTxs
         ELSE [buyTxs EXCEPT
                 ![i].status = status,
                 ![i].txHash = IF txHash = "undefined" THEN "null" ELSE txHash,
                 ![i].confirmedAt = IF status = "confirmed" THEN now + 1 ELSE 0]
  /\ now' = now + 1
  /\ nOps' = nOps + 1
  /\ UNCHANGED <<env, sellTxs, usedNonces, idSeq, req>>
  /\ UNCHANGED ledgerTables

\* SellTokensService.updateTransactionStatus: prisma update where { id } with
\* data { status, txHash, updatedAt }; an undefined txHash leaves the column,
\* a missing row makes the update throw and the method answer false
SellUpdateTransactionStatus(transactionId, status, txHash) ==
  /\ nOps < MaxRelayOps
  /\ LET i == RowIndex(sellTxs, transactionId) IN
       sellTxs' =
         IF i = 0 THEN sellTxs
         ELSE [sellTxs EXCEPT
                 ![i].status = status,
                 ![i].txHash = IF txHash = "undefined" THEN @ ELSE txHash,
                 ![i].updatedAt = now + 1]
  /\ now' = now + 1
  /\ nOps' = nOps + 1
  /\ UNCHANGED <<env, buyTxs, usedNonces, idSeq, req>>
  /\ UNCHANGED ledgerTables

\* the operations of both services on their trackers, one call at a time
NextTrackers ==
  \/ RelaySteps({1})
  \/ \E id \in ConfirmIds(buyTxs), st \in TrackerStatuses,
        h \in OptionalTxHashes :
       Quiescent /\ BuyUpdateTransactionStatus(id, st, h)
  \/ \E id \in ConfirmIds(sellTxs), st \in TrackerStatuses,
        h \in OptionalTxHashes :
       Quiescent /\ SellUpdateTransactionStatus(id, st, h)

SpecTrackers == InitRelay /\ [][NextTrackers]_vars

PendingBuyRowsHaveNoConfirmationTime ==
  \A i \in 1..Len(buyTxs) :
    buyTxs[i].status = "pending" => buyTxs[i].confirmedAt = 0

----------------------------------------------------------------------------
(* C36: the cut-value preview against the points a cut adds.  The           *)
(* repository holds two versions of PlayerService.cutPlayers.               *)

CutShareLists == {<<1>>, <<2>>, <<1, 2>>}

MAX_POINTS == 2147483647

\* POST /api/players/cut-value: totalPoints += shares[i] * POINTS_PER_SHARE
CutValue(r, caller, shares) ==
  /\ LedgerCanStart({r}, r)
  /\ caller \in DOMAIN users
  /\ LET RECURSIVE totalPoints(_)
         totalPoints(i) ==
           IF i = 0 THEN 0
           ELSE totalPoints(i - 1) + shares[i] * POINTS_PER_SHARE
         f == [Idle EXCEPT !.op = "cutValue", !.caller = caller,
                           !.addr = users[caller].walletAddress,
                           !.shares = shares]
     IN  Start(r, [Done(f, "ok") EXCEPT !.ret = totalPoints(Len(shares))])
  /\ UNCHANGED <<env, users, players, transactions, pointHistory>>
  /\ UNCHANGED relayTables

\* the second version: every share count goes through ethers.formatEther,
\* that is divided by 10^18, is multiplied by POINTS_PER_SHARE and summed; the
\* sum is rounded to the nearest integer and capped at MAX_POINTS
RoundedPoints(shares) ==
  LET weiTimesPoints == PointsEarned(shares)
      roundedPoints ==
        ((weiTimesPoints \div 1000000000) + 500000000) \div 1000000000
  IN  IF roundedPoints > MAX_POINTS THEN MAX_POINTS ELSE roundedPoints

\* the second version of cutPlayers up to the contract call: checkPackIssuer,
\* the length checks, and the account must exist
CutPlayersInEtherBegin(S, r, caller, shares) ==
  /\ LedgerCanStart(S, r)
  /\ caller \in DOMAIN users
  /\ LET f == [Idle EXCEPT !.op = "cutInEther", !.caller = caller,
                           !.addr = users[caller].walletAddress,
                           !.shares = shares, !.cur = "TOURNAMENT",
                           !.amt = RoundedPoints(shares)]
     IN  IF ~PackIssuerConfigured
         THEN Start(r, Done(f, "PackIssuer not configured"))
         ELSE IF Len(shares) = 0
         THEN Start(r, Done(f, "At least one player must be specified"))
         ELSE IF FindByWallet(ToLowerCase(f.addr)) = 0
         THEN Start(r, Done(f, "User not found in database"))
         ELSE Start(r, [f EXCEPT !.pc = "chain"])
  /\ UNCHANGED <<env, users, players, transactions, pointHistory>>
  /\ UNCHANGED relayTables

\* the second addTournamentPoints: userBefore, read once the call confirmed
AddTournamentPointsBefore(r) ==
  /\ At(r, "cutInEther", "update")
  /\ LET userBefore == FindByWallet(ToLowerCase(req[r].addr)) IN
       IF userBefore = 0
       THEN Finish(r, "User not found")
       ELSE req' = [req EXCEPT ![r].pc = "increment", ![r].uid = userBefore,
                               ![r].cb = users[userBefore].tournamentPoints]
  /\ UNCHANGED <<env, users, players, transactions, pointHistory, nOps>>
  /\ UNCHANGED relayTables

\* user.update({ data: { tournamentPoints: { increment: points } } })
AddTournamentPointsIncrement(r) ==
  /\ At(r, "cutInEther", "increment")
  /\ LET u == FindByWallet(ToLowerCase(req[r].addr)) IN
       IF u = 0
       THEN /\ Finish(r, "Database error")
            /\ UNCHANGED users
       ELSE /\ users' = [users EXCEPT ![u].tournamentPoints = @ + req[r].amt]
            /\ Goto(r, "record")
  /\ UNCHANGED <<env, players, transactions, pointHistory, nOps>>
  /\ UNCHANGED relayTables

\* previews in one slot, cuts of either version in the other
NextCut ==
  \/ \E a \in Addresses : Login(a)
  \/ \E c \in UserIds, sh \in CutShareLists : CutValue(2, c, sh)
  \/ \E c \in UserIds, sh \in CutShareLists : CutPlayersBegin({1}, 1, c, sh)
  \/ CutPlayersConfirmed(1)
  \/ CutPlayersFailed(1)
  \/ AddTournamentPointsUpdate(1)
  \/ AddTournamentPointsFind(1)
  \/ AddTournamentPointsRecord(1)
  \/ AddTournamentPointsHistory(1)
  \/ \E c \in UserIds, sh \in CutShareLists :
       CutPlayersInEtherBegin({1}, 1, c, sh)
  \/ ChainConfirmed(1, "cutInEther")
  \/ ChainFailed(1, "cutInEther")
  \/ AddTournamentPointsBefore(1)
  \/ AddTournamentPointsIncrement(1)
  \/ IncrementRecord(1, "cutInEther", "PLAYER_CUT", "TOURNAMENT", req[1].amt)
  \/ IncrementHistory(1, "cutInEther", "TOURNAMENT", req[1].amt)

SpecCut == InitLedger /\ [][NextCut]_vars

\* the largest value a preview of these share counts returns
MaxCutValue == 3 * POINTS_PER_SHARE

\* the request in slot r increments the balance of account u by `added`
CutAdds(r, op, from, to, u, added) ==
  /\ req[r].op = op
  /\ req[r].pc = from
  /\ req'[r].pc = to
  /\ u = FindByWallet(ToLowerCase(req[r].addr))
  /\ added = users'[u].tournamentPoints - users[u].tournamentPoints

\* the preview has answered for the share counts of the cut in slot r
PreviewedAs(r, cutValue) ==
  /\ req[2].op = "cutValue"
  /\ req[2].pc = "done"
  /\ req[2].shares = req[r].shares
  /\ cutValue = req[2].ret

\* C36: whenever a cut, of either version of cutPlayers, adds tournament
\* points for share counts that the preview has answered for, it adds the
\* cutValue that the preview returned.
C36_CutAddsPreviewedValue ==
  [][\A u \in DOMAIN users, added \in -1..(MaxCutValue + 1),
        cutValue \in 0..MaxCutValue :
       ((CutAdds(1, "cut", "update", "find", u, added)
           \/ CutAdds(1, "cutInEther", "increment", "record", u, added))
          /\ PreviewedAs(1, cutValue))
         => added = cutValue]_vars

\* the same for the version of cutPlayers in playerService.ts alone
FirstVersionAddsPreviewedValue ==
  [][\A u \in DOMAIN users, added \in -1..(MaxCutValue + 1),
        cutValue \in 0..MaxCutValue :
       (CutAdds(1, "cut", "update", "find", u, added)
          /\ PreviewedAs(1, cutValue))
         => added = cutValue]_vars

====
